---- MODULE Spec2Model ----
(***************************************************************************)
(* PlayPatch: the gesture-driven synthesis engine.                         *)
(*                                                                         *)
(* Two variants of the pointer pipeline are modelled side by side:         *)
(*   "lead" - the lead/pad App (pentatonic scale, shimmer arpeggio, bell   *)
(*            chime), handlers suffixed LP;                                *)
(*   "grid" - the 5x5 instrument grid App (cell mix, tap sound), handlers  *)
(*            suffixed Grid.                                               *)
(* Both share the refs voicesRef, releaseTimersRef, activePointersRef,     *)
(* pointerMetaRef and the RainbowField emitters.                           *)
(*                                                                         *)
(* Times are milliseconds on one clock (performance.now and the audio      *)
(* clock run at the same rate); frequencies are centi-Hertz; distances are *)
(* whole pixels.                                                           *)
(*                                                                         *)
(* Spec drives the pointer pipeline. EmitterSpec and PulseSpec drive the   *)
(* RainbowField on its own, frame by frame, on a clock of 0.1 ms.          *)
(***************************************************************************)
EXTENDS Integers, Sequences, FiniteSets, TLC

(* ------------------------------ bounds --------------------------------- *)

\* The container rectangle (rect.width, rect.height).
WIDTH == 200
HEIGHT == 200
\* Pointer ids and the positions pointer events are drawn from.
PointerIds == {1}
Positions == {<<30, 0>>, <<60, 0>>, <<30, 100>>, <<100, 100>>}
\* Voices created in one run, clock horizon, clock step, distance travelled
\* by one gesture, pointer-move events of one gesture.
MaxVoices == 2
MaxTime == 750
TickMs == 250
MaxDistance == 170
MaxMoves == 2

\* The field on its own: the looks at the clock in a run, and the pulses alive
\* at once.
MaxFrames == 3
MaxPulses == 2

(* ------------------------- program constants --------------------------- *)

TAP_MS == 220
TAP_DISTANCE == 32
DIAGONAL_MIN == 60
DIAGONAL_SKEW == 40
PAD_MIN == 50
LEAD_MIN == 40
LP_RAMP_MS == 120
LP_OSC_STOP_MS == 150
LP_TIMEOUT_MS == 250
GRID_MIN_RELEASE_MS == 120
GRID_OSC_STOP_MS == 50
GRID_TIMEOUT_MS == 250
GRID_ROWS == 5
GRID_COLUMNS == 5
PERCUSSIVE_RELEASE_MS == 160

(* ------------------------------ helpers -------------------------------- *)

Min(a, b) == IF a < b THEN a ELSE b
Max(a, b) == IF a > b THEN a ELSE b
Abs(a) == IF a < 0 THEN -a ELSE a

\* utils/math clamp(value, min, max).
clamp(value, lo, hi) == Max(lo, Min(hi, value))

\* Math.hypot on whole pixels, rounded down.
hypot(dx, dy) ==
  LET n == dx * dx + dy * dy
  IN  CHOOSE r \in 0..(Abs(dx) + Abs(dy)) : r * r <= n /\ (r + 1) * (r + 1) > n

(* ------------------------- Scale / Grid Mapper ------------------------- *)

\* Centi-Hertz; the array is 0-indexed in the source.
PENTATONIC_FREQUENCIES ==
  <<26163, 29366, 32963, 39200, 44000, 52325, 58733, 65925, 78399, 88000>>

\* The mapper without the interpolation: every position of a segment sounds
\* the segment's lower scale step, and the pitch jumps at the boundaries.
getFrequencyForPosition_stepwise(x, width) ==
  IF width <= 0 THEN PENTATONIC_FREQUENCIES[1]
  ELSE LET N == Len(PENTATONIC_FREQUENCIES)
           posNum == clamp(x, 0, width) * (N - 1)
           baseIndex == posNum \div width
       IN  PENTATONIC_FREQUENCIES[baseIndex + 1]

\* Lead/pad variant: linear interpolation between adjacent scale steps.
\* position = clamp(x / width, 0, 1) * (N - 1) is kept as posNum / width.
getFrequencyForPosition(x, width) ==
  IF width <= 0 THEN PENTATONIC_FREQUENCIES[1]
  ELSE LET N == Len(PENTATONIC_FREQUENCIES)
           posNum == clamp(x, 0, width) * (N - 1)
           baseIndex == posNum \div width
           nextIndex == clamp(baseIndex + 1, 0, N - 1)
           fractionNum == posNum - baseIndex * width
           startFreq == PENTATONIC_FREQUENCIES[baseIndex + 1]
           endFreq == PENTATONIC_FREQUENCIES[nextIndex + 1]
       IN  startFreq + ((endFreq - startFreq) * fractionNum) \div width

\* Grid variant tables (centi-Hertz, ratios in 1/10000).
ROW_BASES == <<55437, 46616, 36999, 29366, 22000>>
COLUMN_RATIOS == <<10000, 11225, 12600, 14980, 16820>>

PERCUSSIVE_PATTERN ==
  << <<TRUE, FALSE, TRUE, FALSE, TRUE>>,
     <<FALSE, TRUE, FALSE, TRUE, FALSE>>,
     <<TRUE, FALSE, TRUE, FALSE, TRUE>>,
     <<FALSE, TRUE, FALSE, TRUE, FALSE>>,
     <<TRUE, FALSE, TRUE, FALSE, TRUE>> >>

\* instrument.release of GRID_SPEC[row][col], in ms.
GRID_SPEC_RELEASE ==
  << <<480, 420, 500, 620, 500>>,
     <<580, 540, 460, 620, 560>>,
     <<520, 560, 640, 500, 550>>,
     <<440, 500, 580, 500, 520>>,
     <<620, 560, 500, 580, 640>> >>

\* GRID_CELLS[id]: id = row * GRID_COLUMNS + col; an instrument is named by
\* the id of the cell that carries it (every cell has its own definition).
CellIds == 0..(GRID_ROWS * GRID_COLUMNS - 1)
CellRow(id) == id \div GRID_COLUMNS
CellCol(id) == id % GRID_COLUMNS
CellFrequency(id) ==
  (ROW_BASES[CellRow(id) + 1] * COLUMN_RATIOS[CellCol(id) + 1]) \div 10000
InstrumentRelease(id) ==
  IF PERCUSSIVE_PATTERN[CellRow(id) + 1][CellCol(id) + 1]
    THEN PERCUSSIVE_RELEASE_MS
    ELSE GRID_SPEC_RELEASE[CellRow(id) + 1][CellCol(id) + 1]

\* createPercussiveInstrument's waveforms, 0-indexed in the source.
waveforms == <<"square", "sawtooth", "triangle", "square", "sine">>

\* createPercussiveInstrument with the waveform picked by variant % 4: the
\* fifth waveform is never used.
createPercussiveInstrument_fourWaveforms(baseId, baseFrequency, variantNo) ==
  [id |-> [base |-> baseId, percussive |-> variantNo],
   waveform |-> waveforms[(variantNo % 4) + 1],
   detune |-> (variantNo % 5) * 2 - 4,
   release |-> PERCUSSIVE_RELEASE_MS,
   filterFrequency |-> clamp(baseFrequency * 17 + variantNo * 35000, 350000, 5200000),
   tapGain |-> 38 + (variantNo % 3) * 3,
   tapOctave |-> 0, tapDetune |-> ((variantNo % 5) * 2 - 4) * 150, tapLength |-> 3 + 120 + 140]

\* createPercussiveInstrument(baseId, baseFrequency, variant): the filter
\* frequency is in milli-Hertz, the tap gain in hundredths, the tap detune in
\* centi-Hertz, the tap length (attack + decay + release) in ms; the id
\* `percussive-${baseId}` is kept as its two parts.
createPercussiveInstrument(baseId, baseFrequency, variantNo) ==
  [id |-> [base |-> baseId, percussive |-> variantNo],
   waveform |-> waveforms[(variantNo % Len(waveforms)) + 1],
   detune |-> (variantNo % 5) * 2 - 4,
   release |-> PERCUSSIVE_RELEASE_MS,
   filterFrequency |-> clamp(baseFrequency * 17 + variantNo * 35000, 350000, 5200000),
   tapGain |-> 38 + (variantNo % 3) * 3,
   tapOctave |-> 0, tapDetune |-> ((variantNo % 5) * 2 - 4) * 150, tapLength |-> 3 + 120 + 140]

\* GRID_SPEC[row][col].instrument: id, waveform, detune, filter.frequency in
\* Hertz, tap.gain in hundredths.
GRID_SPEC_ID ==
  << <<"nova", "flare", "solar", "verdant", "lagoon">>,
     <<"lumen", "bloom", "spark", "mist", "azure">>,
     <<"crimson", "glow", "honey", "stream", "tide">>,
     <<"pulse", "prism", "fable", "blaze", "glowr">>,
     <<"skye", "glacier", "grove", "lush", "glowm">> >>
GRID_SPEC_WAVEFORM ==
  << <<"sawtooth", "square", "triangle", "sine", "sawtooth">>,
     <<"triangle", "sawtooth", "square", "sine", "triangle">>,
     <<"sawtooth", "triangle", "sine", "sawtooth", "triangle">>,
     <<"square", "sawtooth", "triangle", "sawtooth", "triangle">>,
     <<"sine", "triangle", "sawtooth", "triangle", "sine">> >>
GRID_SPEC_DETUNE ==
  << <<6, -4, 8, 2, -9>>,
     <<4, 10, -6, 3, -8>>,
     <<5, -5, 1, -10, 3>>,
     <<-3, 12, 6, -8, 2>>,
     <<-2, 5, -6, 4, -4>> >>
GRID_SPEC_FILTER ==
  << <<5200, 3400, 7800, 6200, 6800>>,
     <<7400, 5400, 2800, 6000, 7000>>,
     <<4200, 5600, 6400, 6400, 6800>>,
     <<2200, 4800, 5200, 5600, 6000>>,
     <<5600, 6000, 5200, 5800, 5400>> >>
GRID_SPEC_TAP_GAIN ==
  << <<38, 36, 32, 28, 35>>,
     <<30, 38, 34, 27, 31>>,
     <<36, 30, 26, 34, 30>>,
     <<32, 34, 30, 35, 31>>,
     <<26, 29, 34, 30, 24>> >>

\* tap.octaveOffset, tap.detune in Hertz (0 when absent), and
\* tap.attack + tap.decay + tap.release in ms.
GRID_SPEC_TAP_OCTAVE ==
  << <<1, 0, 1, 1, 1>>,
     <<1, 0, 0, 1, 1>>,
     <<0, 1, 1, 1, 1>>,
     <<0, 1, 1, 0, 1>>,
     <<1, 1, 0, 1, 1>> >>
GRID_SPEC_TAP_DETUNE ==
  << <<14, -12, 0, 7, 0>>,
     <<0, 12, -7, 5, 0>>,
     <<9, 0, 0, 0, 0>>,
     <<-9, 0, 0, 10, 0>>,
     <<0, 0, 11, 0, 0>> >>
GRID_SPEC_TAP_LENGTH ==
  << <<530, 446, 572, 655, 550>>,
     <<634, 528, 446, 656, 572>>,
     <<488, 613, 715, 549, 612>>,
     <<427, 550, 634, 509, 572>>,
     <<716, 654, 549, 654, 756>> >>

\* GRID_SPEC[row][col].instrument, rows and columns counted from 0.
GRID_SPEC(row, col) ==
  [id |-> [base |-> GRID_SPEC_ID[row + 1][col + 1], percussive |-> -1],
   waveform |-> GRID_SPEC_WAVEFORM[row + 1][col + 1],
   detune |-> GRID_SPEC_DETUNE[row + 1][col + 1],
   release |-> GRID_SPEC_RELEASE[row + 1][col + 1],
   filterFrequency |-> GRID_SPEC_FILTER[row + 1][col + 1] * 1000,
   tapGain |-> GRID_SPEC_TAP_GAIN[row + 1][col + 1],
   tapOctave |-> GRID_SPEC_TAP_OCTAVE[row + 1][col + 1],
   tapDetune |-> GRID_SPEC_TAP_DETUNE[row + 1][col + 1] * 100,
   tapLength |-> GRID_SPEC_TAP_LENGTH[row + 1][col + 1]]

\* The GRID_CELLS array, built once when the module loads.
GRID_CELLS ==
  [id \in CellIds |->
     [id |-> id,
      frequency |-> CellFrequency(id),
      instrument |->
        IF PERCUSSIVE_PATTERN[CellRow(id) + 1][CellCol(id) + 1]
          THEN createPercussiveInstrument(GRID_SPEC_ID[CellRow(id) + 1][CellCol(id) + 1],
                                          CellFrequency(id), id)
          ELSE GRID_SPEC(CellRow(id), CellCol(id))]]

getCell(row, col) ==
  IF row * GRID_COLUMNS + col \in CellIds THEN row * GRID_COLUMNS + col ELSE 0

lerp(a, b, t10k) == a + ((b - a) * t10k) \div 10000

\* computeCellMix: normalized coordinates and blends are in 1/10000.
computeCellMix(x, y, width, height) ==
  IF width <= 0 \/ height <= 0
    THEN [primaryCell |-> 0, blendedFrequency |-> CellFrequency(0),
          rowIndex |-> 0, columnIndex |-> 0]
    ELSE LET normalizedX == clamp((x * 10000) \div width, 0, 9999)
             normalizedY == clamp((y * 10000) \div height, 0, 9999)
             columnIndex == Min((normalizedX * GRID_COLUMNS) \div 10000, GRID_COLUMNS - 1)
             rowIndex == Min((normalizedY * GRID_ROWS) \div 10000, GRID_ROWS - 1)
             nextColumn == Min(columnIndex + 1, GRID_COLUMNS - 1)
             nextRow == Min(rowIndex + 1, GRID_ROWS - 1)
             blendX == clamp(normalizedX * GRID_COLUMNS - columnIndex * 10000, 0, 10000)
             blendY == clamp(normalizedY * GRID_ROWS - rowIndex * 10000, 0, 10000)
             cell00 == getCell(rowIndex, columnIndex)
             cell10 == getCell(rowIndex, nextColumn)
             cell01 == getCell(nextRow, columnIndex)
             cell11 == getCell(nextRow, nextColumn)
             topFrequency == lerp(CellFrequency(cell00), CellFrequency(cell10), blendX)
             bottomFrequency == lerp(CellFrequency(cell01), CellFrequency(cell11), blendX)
         IN  [primaryCell |-> cell00,
              blendedFrequency |-> lerp(topFrequency, bottomFrequency, blendY),
              rowIndex |-> rowIndex, columnIndex |-> columnIndex]

(* ------------------------------- state --------------------------------- *)

VARIABLES
  variant,            \* "lead" | "grid": which App is mounted
  hasConstructor,     \* window.AudioContext ?? window.webkitAudioContext exists
  now,                \* performance.now() / context.currentTime, in ms
  audioContextRef,    \* "null" | "suspended" | "running"
  pendingDowns,       \* handlePointerDown calls suspended at the await, oldest first
  resuming,           \* "no" | "resolve" | "reject": the resume promises are being settled
  voicesRef,          \* pointer id -> index into audioGraph, 0 when absent
  audioGraph,         \* every Voice created so far, with its node graph's fate
  releaseTimersRef,   \* pointer id -> timeout id, 0 when absent
  timeouts,           \* window.setTimeout callbacks not yet run or cleared
  activePointersRef,  \* Set<number>
  pointerMetaRef,     \* pointer id -> PointerMeta, NoMeta when absent
  emitters,           \* RainbowField.emitters: pointer id -> emitter, NoEmitter when absent
  oneShots,           \* history: one-shots triggered for a pointer since its last pointer-down
  gesture,            \* history: what the input layer did with each pointer
  fieldNow,           \* performance.now() as RainbowField reads it, in 0.1 ms
  pulses,             \* RainbowField.pulses, oldest first
  frame,              \* history: the intensities the last draw() computed
  rect,               \* container.getBoundingClientRect() as the mapper reads it
  mapped,             \* history: the last position mapped, and what it was mapped to
  particleHost,       \* "aurora" | "inline": AuroraField, or the App with the inline particles
  random,             \* what Math.random() returns in this run, in hundredths
  particles,          \* the particle list, oldest first, as runs of particles spawned alike
  PARTICLE_ID,        \* the next particle id (particleIdRef.current in the inline App)
  lastTime,           \* the animation loop's lastTime in ms, -1 when null
  bursts,             \* history: the spawn calls made so far
  currentTime,        \* context.currentTime in ms, as the one-shots read it
  nodes,              \* every AudioNode created: whose it is, and its disconnect() calls
  shots,              \* every one-shot scheduled, with the nodes its onended closes over
  heldVoices,         \* the Voices created, each with its nodes
  grid,               \* PatchSequencer grid (and gridRef): tile -> instrument id, "null" when empty
  holdTriggeredRef,   \* tile -> "true" | "false", "none" when the key is absent
  holdTimersRef,      \* tile -> timer id, 0 when the key is absent
  holdTimeouts,       \* the hold timers window.setTimeout has pending
  nextTimerId,        \* the id the next window.setTimeout returns
  pressNow,           \* the time of the sequencer's pointer events, in ms
  pressing,           \* history: pointer -> the press it holds, NoPress when it holds none
  lastEvent,          \* history: the last handler or timer that ran, and its tile
  isPlaying,          \* PatchSequencer isPlaying
  startPending,       \* start() waits at its await ensureAudioContext()
  cancelledStarts,    \* the start() calls that still wait and whose effect was cleaned up
  lastStart,          \* history: how the last start() went on after its await
  rowRef,
  progressRef,        \* progress of the current step, in ms of STEP_DURATION_MS
  lastTickRef,        \* timestamp of the last animation frame, -1 when null
  animationFrameRef,  \* an animation frame is requested
  playTime,           \* the timestamp of the last animation frame that ran
  triggeredRows,      \* history: the rows the last handler triggered, in order
  toneApp,            \* "part_001" | "App": which Tone.js App is mounted
  audioInitialized,   \* audioInitialized.current
  audioInitPromise,   \* audioInitPromise.current: "null" | "pending" | "fulfilled"
  initRuns,           \* the initialization routines in flight, each at its await
  drumsRef,           \* drumsRef.current.length
  drumSets,           \* history: the calls of createDrumSounds
  toneTouches,        \* the touches state: touch id -> Touch, NoTouch when absent
  synthsRef,          \* touch id -> index into toneSynths, 0 when absent
  toneSynths,         \* every synth/filter pair created, and whether it was disposed
  endWaits,           \* handleTouchEnd calls suspended at await initializeAudio()
  lastDrum,           \* history: the last call of playDrum
  contextState,       \* context.state of the AudioContext handed to ensureAudioContextRunning
  ensurePc,           \* where the call of ensureAudioContextRunning stands
  ensureTimeoutMs,    \* options.timeoutMs of the call
  ensureSettled,      \* `settled` of the promise the call waits on
  ensureListener,     \* handleStateChange is a statechange listener of the context
  ensureTimerId,      \* when the timer of the call is due, NoEnsureTimer when not armed
  ensurePromise,      \* the promise the call returned: "pending", "resolved", "rejected"
  ensureSettlements,  \* history: the times the call resolved or rejected
  ensureCalledAt,     \* history: when the call was made
  ensureNow,          \* the clock of the audio unlock
  loopField,          \* the render field on its own: "RainbowField" or "AuroraField"
  rafId,              \* this.rafId, 0 for null
  destroyed,          \* this.destroyed
  frameRequests,      \* the animation frame callbacks the browser holds
  nextRafId,          \* the handle the next requestAnimationFrame returns
  loopDraws           \* history: the runs of update() and draw() from the loop

vars ==
  <<variant, hasConstructor, now, audioContextRef, pendingDowns, resuming,
    voicesRef, audioGraph, releaseTimersRef, timeouts, activePointersRef,
    pointerMetaRef, emitters, oneShots, gesture, fieldNow, pulses, frame,
    rect, mapped, particleHost, random, particles, PARTICLE_ID, lastTime, bursts,
    currentTime, nodes, shots, heldVoices,
    grid, holdTriggeredRef, holdTimersRef, holdTimeouts, nextTimerId, pressNow, pressing,
    lastEvent, isPlaying, startPending, cancelledStarts, lastStart, rowRef, progressRef, lastTickRef,
    animationFrameRef, playTime, triggeredRows,
    toneApp, audioInitialized, audioInitPromise, initRuns, drumsRef, drumSets, toneTouches,
    synthsRef, toneSynths, endWaits, lastDrum,
    contextState, ensurePc, ensureTimeoutMs, ensureSettled, ensureListener, ensureTimerId,
    ensurePromise, ensureSettlements, ensureCalledAt, ensureNow,
    loopField, rafId, destroyed, frameRequests, nextRafId, loopDraws>>

\* What RainbowField owns besides its emitters, and what it does not own.
fieldVars == <<fieldNow, pulses, frame>>

appVars ==
  <<variant, hasConstructor, now, audioContextRef, pendingDowns, resuming,
    voicesRef, audioGraph, releaseTimersRef, timeouts, activePointersRef,
    pointerMetaRef, oneShots, gesture>>

\* The pointer pipeline with its field, and the components that are driven on
\* their own: each component's variables rest while another one runs.
pipelineVars == <<appVars, emitters, fieldVars>>
mapperVars == <<rect, mapped>>
particleVars == <<particleHost, random, particles, PARTICLE_ID, lastTime, bursts>>
shotVars == <<currentTime, nodes, shots, heldVoices>>
pressVars ==
  <<grid, holdTriggeredRef, holdTimersRef, holdTimeouts, nextTimerId, pressNow, pressing,
    lastEvent>>
playVars ==
  <<isPlaying, startPending, cancelledStarts, lastStart, rowRef, progressRef, lastTickRef,
    animationFrameRef, playTime, triggeredRows>>
sequencerVars == <<pressVars, playVars>>
toneVars ==
  <<toneApp, audioInitialized, audioInitPromise, initRuns, drumsRef, drumSets, toneTouches,
    synthsRef, toneSynths, endWaits, lastDrum>>
ensureVars ==
  <<contextState, ensurePc, ensureTimeoutMs, ensureSettled, ensureListener, ensureTimerId,
    ensurePromise, ensureSettlements, ensureCalledAt, ensureNow>>
loopVars == <<loopField, rafId, destroyed, frameRequests, nextRafId, loopDraws>>
\* The components of the Tone.js App, of the audio unlock and of the field loops.
lateVars == <<toneVars, ensureVars, loopVars>>
componentVars == <<mapperVars, particleVars, shotVars, sequencerVars, lateVars>>

NoMeta == [startTime |-> -1]
NoEmitter == [releaseAt |-> -2]
\* gain is the peak of the last one-shot's envelope, in hundredths.
NoShots == [chime |-> 0, shimmer |-> 0, pitch |-> -1, gain |-> -1]
NoGesture == [phase |-> "none"]
NoMapped == [x |-> 0, y |-> 0, frequency |-> -1]
NoFrame ==
  [emitters |-> [id \in PointerIds |-> -1], pulses |-> <<>>, dropped |-> 0, reactivated |-> {}]

\* The refs and the field, gathered so that one handler can be composed of
\* the calls it makes.
Refs ==
  [voices |-> voicesRef, graph |-> audioGraph, timers |-> releaseTimersRef,
   timeouts |-> timeouts, active |-> activePointersRef, meta |-> pointerMetaRef,
   emitters |-> emitters, shots |-> oneShots]

Commit(s) ==
  /\ voicesRef' = s.voices
  /\ audioGraph' = s.graph
  /\ releaseTimersRef' = s.timers
  /\ timeouts' = s.timeouts
  /\ activePointersRef' = s.active
  /\ pointerMetaRef' = s.meta
  /\ emitters' = s.emitters
  /\ oneShots' = s.shots

PipelineInit ==
  /\ variant \in {"lead", "grid"}
  /\ hasConstructor \in BOOLEAN
  /\ now = 0
  /\ audioContextRef = "null"
  /\ pendingDowns = <<>>
  /\ resuming = "no"
  /\ voicesRef = [id \in PointerIds |-> 0]
  /\ audioGraph = <<>>
  /\ releaseTimersRef = [id \in PointerIds |-> 0]
  /\ timeouts = {}
  /\ activePointersRef = {}
  /\ pointerMetaRef = [id \in PointerIds |-> NoMeta]
  /\ emitters = [id \in PointerIds |-> NoEmitter]
  /\ oneShots = [id \in PointerIds |-> NoShots]
  /\ gesture = [id \in PointerIds |-> NoGesture]
  /\ fieldNow = 0
  /\ pulses = <<>>
  /\ frame = NoFrame

\* The pointer pipeline of a page on which another component is driven.
PipelineIdle ==
  /\ PipelineInit
  /\ variant = "lead"
  /\ hasConstructor

\* A component that is mounted but not driven.
MapperIdle ==
  /\ rect = [width |-> WIDTH, height |-> HEIGHT]
  /\ mapped = NoMapped

ParticlesIdle ==
  /\ particleHost = "aurora"
  /\ random = 0
  /\ particles = <<>>
  /\ PARTICLE_ID = 0
  /\ lastTime = -1
  /\ bursts = 0

OneShotsIdle ==
  /\ currentTime = 0
  /\ nodes = <<>>
  /\ shots = <<>>
  /\ heldVoices = <<>>

\* The tiles and the pointers of the sequencer that are pressed in a run.
Tiles == {<<0, 0>>, <<1, 2>>}
PressPointers == {1, 2}
NoPress == [tile |-> <<>>]
NoEvent == [kind |-> "none"]

PressIdle ==
  /\ grid = [tile \in Tiles |-> "null"]
  /\ holdTriggeredRef = [tile \in Tiles |-> "none"]
  /\ holdTimersRef = [tile \in Tiles |-> 0]
  /\ holdTimeouts = {}
  /\ nextTimerId = 1
  /\ pressNow = 0
  /\ pressing = [p \in PressPointers |-> NoPress]
  /\ lastEvent = NoEvent

PlaybackIdle ==
  /\ isPlaying = FALSE
  /\ startPending = FALSE
  /\ cancelledStarts = 0
  /\ lastStart = "none"
  /\ rowRef = 0
  /\ progressRef = 0
  /\ lastTickRef = -1
  /\ animationFrameRef = FALSE
  /\ playTime = 0
  /\ triggeredRows = <<>>

SequencerIdle == PressIdle /\ PlaybackIdle

\* The touch ids of the Tone.js App (the mouse has an id of its own, mouseId).
ToneIds == {1, 2}
NoTouch == [id |-> 0]
NoDrum == [index |-> -1]

ToneIdle ==
  /\ toneApp = "part_001"
  /\ audioInitialized = FALSE
  /\ audioInitPromise = "null"
  /\ initRuns = <<>>
  /\ drumsRef = 0
  /\ drumSets = 0
  /\ toneTouches = [id \in ToneIds |-> NoTouch]
  /\ synthsRef = [id \in ToneIds |-> 0]
  /\ toneSynths = <<>>
  /\ endWaits = <<>>
  /\ lastDrum = NoDrum

NoEnsureTimer == -1

EnsureIdle ==
  /\ contextState = "suspended"
  /\ ensurePc = "idle"
  /\ ensureTimeoutMs = 0
  /\ ensureSettled = FALSE
  /\ ensureListener = FALSE
  /\ ensureTimerId = NoEnsureTimer
  /\ ensurePromise = "pending"
  /\ ensureSettlements = 0
  /\ ensureCalledAt = 0
  /\ ensureNow = 0

LoopIdle ==
  /\ loopField = "RainbowField"
  /\ rafId = 0
  /\ destroyed = FALSE
  /\ frameRequests = {}
  /\ nextRafId = 1
  /\ loopDraws = 0

LateIdle == ToneIdle /\ EnsureIdle /\ LoopIdle

Init ==
  /\ PipelineInit
  /\ MapperIdle
  /\ ParticlesIdle
  /\ OneShotsIdle
  /\ SequencerIdle
  /\ LateIdle

(* ----------------------------- RainbowField ---------------------------- *)

\* setEmitter(id, x, y, frequency[, color]) at time t. Of an emitter the model
\* keeps frequency, active and releaseAt (undefined is -1).
setEmitter(s, id, frequency, t) ==
  LET existing == s.emitters[id]
  IN  IF existing # NoEmitter
        THEN [s EXCEPT !.emitters[id] =
                IF ~existing.active
                  THEN [existing EXCEPT !.frequency = frequency, !.active = TRUE,
                                        !.releaseAt = -1]
                  ELSE [existing EXCEPT !.frequency = frequency]]
        ELSE [s EXCEPT !.emitters[id] =
                [frequency |-> frequency, active |-> TRUE, releaseAt |-> -1]]

\* releaseEmitter that drops the emitter from the map, as clearEmitter does:
\* the ripple vanishes at once instead of fading.
releaseEmitter_deletes(s, id, t) ==
  LET emitter == s.emitters[id]
  IN  IF emitter = NoEmitter \/ ~emitter.active
        THEN s
        ELSE [s EXCEPT !.emitters[id] = NoEmitter]

\* releaseEmitter without the `!emitter.active` half of its guard: a release
\* of an emitter that is already fading restarts the fade.
releaseEmitter_restartsFade(s, id, t) ==
  LET emitter == s.emitters[id]
  IN  IF emitter = NoEmitter
        THEN s
        ELSE [s EXCEPT !.emitters[id] = [emitter EXCEPT !.active = FALSE, !.releaseAt = t]]

\* releaseEmitter(id) at time t.
releaseEmitter(s, id, t) ==
  LET emitter == s.emitters[id]
  IN  IF emitter = NoEmitter \/ ~emitter.active
        THEN s
        ELSE [s EXCEPT !.emitters[id] = [emitter EXCEPT !.active = FALSE, !.releaseAt = t]]

(* ----------------------------- Voice release --------------------------- *)

\* A Voice taken out of voicesRef: no handler reaches it again, and the model
\* keeps its release schedule only.
released(voice, rampEnd, oscStop) ==
  [pointerId |-> voice.pointerId, status |-> "released", instrument |-> -1,
   currentCellIndex |-> -1, frequency |-> 0, rampEnd |-> rampEnd, oscStop |-> oscStop,
   stale |-> voice.stale]

\* The release schedule stopVoice writes on a Voice at time t: the gain ramp
\* ends at rampEnd, the oscillator stops at oscStop, and a timeout that
\* disconnects the nodes is set for fireAt.
scheduleRelease(s, id, t, rampMs, stopMs, timeoutMs) ==
  LET v == s.voices[id]
  IN  [s EXCEPT !.voices[id] = 0,
                !.graph[v] = released(@, t + rampMs, t + stopMs),
                !.timeouts = @ \cup {[timer |-> v, pointerId |-> id, fireAt |-> t + timeoutMs]},
                !.timers[id] = v]

\* Lead/pad stopVoice(id); ctx is audioContextRef.current.
stopVoiceLP(s, id, ctx, t) ==
  IF s.voices[id] = 0 \/ ctx = "null"
    THEN s
    ELSE scheduleRelease(s, id, t, LP_RAMP_MS, LP_OSC_STOP_MS, LP_TIMEOUT_MS)

\* Grid stopVoice with the fixed 250 ms timeout of the lead/pad variant: the
\* nodes of a long-release instrument are disconnected while it still fades.
stopVoiceGrid_fixedTimeout(s, id, ctx, t) ==
  IF s.voices[id] = 0 \/ ctx = "null"
    THEN s
    ELSE LET releaseTime ==
               Max(GRID_MIN_RELEASE_MS, InstrumentRelease(s.graph[s.voices[id]].instrument))
         IN  scheduleRelease(s, id, t, releaseTime, releaseTime + GRID_OSC_STOP_MS,
                      LP_TIMEOUT_MS)

\* Grid stopVoice(id): releaseTime = max(0.12, voice.instrument.release).
stopVoiceGrid(s, id, ctx, t) ==
  IF s.voices[id] = 0 \/ ctx = "null"
    THEN s
    ELSE LET releaseTime ==
               Max(GRID_MIN_RELEASE_MS, InstrumentRelease(s.graph[s.voices[id]].instrument))
         IN  scheduleRelease(s, id, t, releaseTime, releaseTime + GRID_OSC_STOP_MS,
                      releaseTime + GRID_TIMEOUT_MS)

\* A Voice whose nodes were disconnected: nothing of it is left in the graph.
disconnected(voice) ==
  [pointerId |-> voice.pointerId, status |-> "disconnected", instrument |-> -1,
   currentCellIndex |-> -1, frequency |-> 0, rampEnd |-> -1, oscStop |-> -1,
   stale |-> FALSE]

\* The callback stopVoice hands to window.setTimeout.
TimeoutFire(tm) ==
  /\ resuming = "no"
  /\ tm \in timeouts
  /\ now >= tm.fireAt
  /\ timeouts' = timeouts \ {tm}
  /\ audioGraph' = [audioGraph EXCEPT ![tm.timer] = disconnected(@)]
  /\ releaseTimersRef' = [releaseTimersRef EXCEPT ![tm.pointerId] = 0]
  /\ UNCHANGED <<componentVars, fieldNow, pulses, frame, variant, hasConstructor, now, audioContextRef, pendingDowns, resuming,
                 voicesRef, activePointersRef, pointerMetaRef, emitters, oneShots, gesture>>

\* The part of handlePointerDown between the await and the Voice: the pending
\* release timeout of the pointer is cleared.
clearReleaseTimer(s, id) ==
  IF s.timers[id] # 0
    THEN [s EXCEPT !.timeouts = {tm \in @ : tm.timer # s.timers[id]}, !.timers[id] = 0]
    ELSE s

(* --------------------------- input history ----------------------------- *)

\* The diagonal condition of handlePointerMove, on displacements from the start.
isDiagonal(totalDx, totalDy) ==
  /\ Abs(totalDx) > DIAGONAL_MIN
  /\ Abs(totalDy) > DIAGONAL_MIN
  /\ Abs(Abs(totalDx) - Abs(totalDy)) < DIAGONAL_SKEW

\* gesture[id] while the pointer is down: where and when it went down, where
\* it is, how far it travelled, and how many of its moves were diagonal.
gestureDown(x, y, t) ==
  [phase |-> "down", startX |-> x, startY |-> y, lastX |-> x, lastY |-> y,
   dist |-> 0, downAt |-> t, moves |-> 0, diagonals |-> 0]

gestureMove(g, x, y) ==
  IF g.phase # "down" THEN g
  ELSE [g EXCEPT !.lastX = x, !.lastY = y, !.moves = @ + 1,
                 !.dist = @ + hypot(x - g.lastX, y - g.lastY),
                 !.diagonals = @ + (IF isDiagonal(x - g.startX, y - g.startY) THEN 1 ELSE 0)]

\* gesture[id] after a release event: which event came first, whether it found
\* a Voice in voicesRef, and whether another release event followed it.
gestureEnd(g, by, hadVoice) ==
  IF g.phase = "ended" THEN [g EXCEPT !.repeated = TRUE]
  ELSE [phase |-> "ended", by |-> by, hadVoice |-> hadVoice, repeated |-> FALSE]

MayMove(id, x, y) ==
  gesture[id].phase = "down" =>
    /\ gesture[id].moves < MaxMoves
    /\ gesture[id].dist + hypot(x - gesture[id].lastX, y - gesture[id].lastY) <= MaxDistance

\* A pointer-up or pointer-cancel reaches the pointer-downs of that pointer
\* that are still waiting at the await.
markReleased(queue, id) ==
  [i \in DOMAIN queue |->
     IF queue[i].pointerId = id THEN [queue[i] EXCEPT !.released = TRUE] ELSE queue[i]]

(* ---------------------------- audio context ---------------------------- *)

\* ensureAudioContext(): what a call can come to. "throw": no constructor;
\* "suspended": the call awaits context.resume(); "running": it returns the
\* context without waiting. A context just constructed starts in either state.
ensureAudioContext ==
  IF audioContextRef = "null"
    THEN IF hasConstructor THEN {"suspended", "running"} ELSE {"throw"}
    ELSE {audioContextRef}

(* ------------------------- lead / pad variant -------------------------- *)

newVoice(id, instrument, cell, frequency, stale) ==
  [pointerId |-> id, status |-> "sounding", instrument |-> instrument,
   currentCellIndex |-> cell, frequency |-> frequency, rampEnd |-> -1,
   oscStop |-> -1, stale |-> stale]

\* handlePointerDown after the await, without the return for a pointer that
\* is no longer in activePointersRef.
afterAwaitLP_ignoresRelease(s, task, t) ==
  LET id == task.pointerId
      s1 == clearReleaseTimer(s, id)
      frequency == getFrequencyForPosition(task.x, WIDTH)
      s2 == [s1 EXCEPT
               !.graph = Append(@, newVoice(id, "lead", -1, frequency, task.released)),
               !.voices[id] = Len(s1.graph) + 1,
               !.meta[id] = [startX |-> task.x, startY |-> task.y, lastX |-> task.x,
                             lastY |-> task.y, totalDistance |-> 0, startTime |-> t,
                             instrumentLocked |-> FALSE, triggeredShimmer |-> FALSE]]
  IN  setEmitter(s2, id, frequency, t)

\* handlePointerDown after `context = await ensureAudioContext()`.
afterAwaitLP(s, task, t) ==
  LET id == task.pointerId
      s1 == clearReleaseTimer(s, id)
      frequency == getFrequencyForPosition(task.x, WIDTH)
      s2 == [s1 EXCEPT
               !.graph = Append(@, newVoice(id, "lead", -1, frequency, task.released)),
               !.voices[id] = Len(s1.graph) + 1,
               !.meta[id] = [startX |-> task.x, startY |-> task.y, lastX |-> task.x,
                             lastY |-> task.y, totalDistance |-> 0, startTime |-> t,
                             instrumentLocked |-> FALSE, triggeredShimmer |-> FALSE]]
  IN  IF id \notin s1.active THEN s1 ELSE setEmitter(s2, id, frequency, t)

\* handlePointerDown's catch branch.
catchLP(s, id, t) == [s EXCEPT !.active = @ \ {id}]

handlePointerDownLP(id, x, y) ==
  /\ variant = "lead"
  /\ resuming = "no"
  /\ gesture[id].phase # "down"
  /\ Len(audioGraph) + Len(pendingDowns) < MaxVoices
  /\ gesture' = [gesture EXCEPT ![id] = gestureDown(x, y, now)]
  /\ LET s0 == [Refs EXCEPT !.active = @ \cup {id}, !.shots[id] = NoShots]
         task == [pointerId |-> id, x |-> x, y |-> y, released |-> FALSE]
     IN  \E outcome \in ensureAudioContext :
           CASE outcome = "throw" ->
                  /\ Commit(catchLP(s0, id, now))
                  /\ UNCHANGED <<audioContextRef, pendingDowns>>
             [] outcome = "suspended" ->
                  /\ Commit(s0)
                  /\ audioContextRef' = "suspended"
                  /\ pendingDowns' = Append(pendingDowns, task)
             [] outcome = "running" ->
                  /\ Commit(afterAwaitLP(s0, task, now))
                  /\ audioContextRef' = "running"
                  /\ UNCHANGED pendingDowns
  /\ UNCHANGED <<componentVars, fieldNow, pulses, frame, variant, hasConstructor, now, resuming>>

\* triggerShimmerArpeggio / triggerBellChime, as far as the history shows them.
triggerShimmerArpeggio(s, id, baseFrequency, ctx) ==
  IF ctx = "null" THEN s
  ELSE [s EXCEPT !.shots[id].shimmer = @ + 1, !.shots[id].pitch = baseFrequency,
                 !.shots[id].gain = 22]

triggerBellChime(s, id, baseFrequency, ctx) ==
  IF ctx = "null" THEN s
  ELSE [s EXCEPT !.shots[id].chime = @ + 1, !.shots[id].pitch = baseFrequency,
                 !.shots[id].gain = 40]

\* The orientation checks without the `!meta.instrumentLocked` guard around
\* them: a locked lead still turns into a pad on a later vertical move.
lockInstrument_ignoresLock(voice, meta, absDx, absDy) ==
  IF 100 * absDy > 135 * absDx /\ absDy > PAD_MIN /\ voice.instrument # "pad"
    THEN [instrument |-> "pad", locked |-> TRUE]
    ELSE IF absDx > LEAD_MIN
           THEN [instrument |-> voice.instrument, locked |-> TRUE]
           ELSE [instrument |-> voice.instrument, locked |-> meta.instrumentLocked]

\* The instrument lock of handlePointerMove: the Voice's instrument and the
\* meta's instrumentLocked after the orientation checks.
lockInstrument(voice, meta, absDx, absDy) ==
  IF meta.instrumentLocked
    THEN [instrument |-> voice.instrument, locked |-> TRUE]
    ELSE IF 100 * absDy > 135 * absDx /\ absDy > PAD_MIN /\ voice.instrument # "pad"
           THEN [instrument |-> "pad", locked |-> TRUE]
           ELSE IF absDx > LEAD_MIN
                  THEN [instrument |-> voice.instrument, locked |-> TRUE]
                  ELSE [instrument |-> voice.instrument, locked |-> FALSE]

\* The shimmer test outside `if (!meta.instrumentLocked)`.
firesShimmer_ignoresLock(meta, absDx, absDy) ==
  /\ ~meta.triggeredShimmer
  /\ isDiagonal(absDx, absDy)

\* The shimmer test of handlePointerMove.
firesShimmer(meta, absDx, absDy) ==
  /\ ~meta.triggeredShimmer
  /\ ~meta.instrumentLocked
  /\ isDiagonal(absDx, absDy)

\* The shimmer branch without its two resolving steps: triggeredShimmer stays
\* false and the Voice keeps sounding, so the next diagonal move fires again.
shimmerFlare_unresolved(s, id, moved, baseFrequency, ctx, t) ==
  triggerShimmerArpeggio(
    releaseEmitter([s EXCEPT !.meta[id] = moved], id, t),
    id, baseFrequency, ctx)

\* The shimmer branch of handlePointerMove: the gesture is marked, the Voice
\* stopped, the emitter released and the arpeggio scheduled.
shimmerFlare(s, id, moved, baseFrequency, ctx, t) ==
  triggerShimmerArpeggio(
    releaseEmitter(
      stopVoiceLP([s EXCEPT !.meta[id] = [moved EXCEPT !.triggeredShimmer = TRUE]],
                  id, ctx, t),
      id, t),
    id, baseFrequency, ctx)

pointerMoveLP(s, id, x, y, ctx, t) ==
  LET v == s.voices[id]
      meta == s.meta[id]
  IN  IF v = 0 \/ ctx = "null" \/ meta = NoMeta THEN s
      ELSE
        LET voice == s.graph[v]
            moved == [meta EXCEPT !.lastX = x, !.lastY = y,
                                  !.totalDistance = @ + hypot(x - meta.lastX, y - meta.lastY)]
            absDx == Abs(x - meta.startX)
            absDy == Abs(y - meta.startY)
            frequency == getFrequencyForPosition(x, WIDTH)
            lock == lockInstrument(voice, moved, absDx, absDy)
        IN  IF moved.triggeredShimmer
              THEN [s EXCEPT !.meta[id] = moved]
              ELSE IF firesShimmer(moved, absDx, absDy)
                THEN shimmerFlare(s, id, moved, frequency, ctx, t)
                ELSE setEmitter(
                       [s EXCEPT !.meta[id] = [moved EXCEPT !.instrumentLocked = lock.locked],
                                 !.graph[v] = [voice EXCEPT !.instrument = lock.instrument,
                                                            !.frequency = frequency]],
                       id, frequency, t)

handlePointerMoveLP(id, x, y) ==
  /\ variant = "lead"
  /\ resuming = "no"
  /\ MayMove(id, x, y)
  /\ gesture' = [gesture EXCEPT ![id] = gestureMove(@, x, y)]
  /\ Commit(pointerMoveLP(Refs, id, x, y, audioContextRef, now))
  /\ UNCHANGED <<componentVars, fieldNow, pulses, frame, variant, hasConstructor, now, audioContextRef, pendingDowns, resuming>>

\* The tap test of handlePointerUp.
isTap(meta, t) == t - meta.startTime < TAP_MS /\ meta.totalDistance < TAP_DISTANCE

pointerUpLP(s, id, ctx, t) ==
  LET meta == s.meta[id]
      s1 == releaseEmitter(stopVoiceLP([s EXCEPT !.active = @ \ {id}], id, ctx, t), id, t)
      s2 == [s1 EXCEPT !.meta[id] = NoMeta]
  IN  IF ctx = "null" \/ meta = NoMeta THEN s2
      ELSE IF meta.triggeredShimmer THEN s2
      ELSE IF isTap(meta, t)
        THEN triggerBellChime(s2, id, getFrequencyForPosition(meta.startX, WIDTH), ctx)
        ELSE s2

handlePointerUpLP(id, x, y) ==
  /\ variant = "lead"
  /\ resuming = "no"
  /\ gesture' = [gesture EXCEPT ![id] = gestureEnd(@, "up", voicesRef[id] # 0)]
  /\ pendingDowns' = markReleased(pendingDowns, id)
  /\ Commit(pointerUpLP(Refs, id, audioContextRef, now))
  /\ UNCHANGED <<componentVars, fieldNow, pulses, frame, variant, hasConstructor, now, audioContextRef, resuming>>

\* A cancel handled as a pointer-up: a short, still gesture that is cancelled
\* rings the bell chime.
pointerCancelLP_asUp(s, id, ctx, t) == pointerUpLP(s, id, ctx, t)

\* handlePointerCancel: the pointer is released, nothing is scheduled.
pointerCancelLP(s, id, ctx, t) ==
  releaseEmitter(
    [stopVoiceLP([s EXCEPT !.active = @ \ {id}], id, ctx, t) EXCEPT !.meta[id] = NoMeta],
    id, t)

handlePointerCancelLP(id) ==
  /\ variant = "lead"
  /\ resuming = "no"
  /\ gesture' = [gesture EXCEPT ![id] = gestureEnd(@, "cancel", voicesRef[id] # 0)]
  /\ pendingDowns' = markReleased(pendingDowns, id)
  /\ Commit(pointerCancelLP(Refs, id, audioContextRef, now))
  /\ UNCHANGED <<componentVars, fieldNow, pulses, frame, variant, hasConstructor, now, audioContextRef, resuming>>

(* ----------------------------- grid variant ---------------------------- *)

\* handlePointerDown up to the await: the pointer is active, has its meta
\* and its emitter.
beforeAwaitGrid(s, id, x, y, t) ==
  LET mix == computeCellMix(x, y, WIDTH, HEIGHT)
  IN  setEmitter(
        [s EXCEPT !.active = @ \cup {id},
                  !.meta[id] = [startX |-> x, startY |-> y, lastX |-> x, lastY |-> y,
                                totalDistance |-> 0, startTime |-> t,
                                currentCellIndex |-> mix.primaryCell,
                                lastFrequency |-> mix.blendedFrequency]],
        id, mix.blendedFrequency, t)

\* handlePointerDown after `context = await ensureAudioContext()`; createVoice
\* gets the instrument and the frequency of the pointer-down position.
afterAwaitGrid(s, task, t) ==
  LET id == task.pointerId
      mix == computeCellMix(task.x, task.y, WIDTH, HEIGHT)
      s1 == clearReleaseTimer(s, id)
  IN  IF id \notin s1.active THEN s1
      ELSE [s1 EXCEPT
              !.graph = Append(@, newVoice(id, mix.primaryCell, mix.primaryCell,
                                           mix.blendedFrequency, task.released)),
              !.voices[id] = Len(s1.graph) + 1]

\* The catch branch without its releaseEmitter call: the emitter set before
\* the await keeps glowing for a pointer that has no sound.
catchGrid_keepsEmitter(s, id, t) ==
  [s EXCEPT !.active = @ \ {id}, !.meta[id] = NoMeta]

\* handlePointerDown's catch branch.
catchGrid(s, id, t) ==
  releaseEmitter([s EXCEPT !.active = @ \ {id}, !.meta[id] = NoMeta], id, t)

handlePointerDownGrid(id, x, y) ==
  /\ variant = "grid"
  /\ resuming = "no"
  /\ gesture[id].phase # "down"
  /\ Len(audioGraph) + Len(pendingDowns) < MaxVoices
  /\ gesture' = [gesture EXCEPT ![id] = gestureDown(x, y, now)]
  /\ LET s0 == beforeAwaitGrid([Refs EXCEPT !.shots[id] = NoShots], id, x, y, now)
         task == [pointerId |-> id, x |-> x, y |-> y, released |-> FALSE]
     IN  \E outcome \in ensureAudioContext :
           CASE outcome = "throw" ->
                  /\ Commit(catchGrid(s0, id, now))
                  /\ UNCHANGED <<audioContextRef, pendingDowns>>
             [] outcome = "suspended" ->
                  /\ Commit(s0)
                  /\ audioContextRef' = "suspended"
                  /\ pendingDowns' = Append(pendingDowns, task)
             [] outcome = "running" ->
                  /\ Commit(afterAwaitGrid(s0, task, now))
                  /\ audioContextRef' = "running"
                  /\ UNCHANGED pendingDowns
  /\ UNCHANGED <<componentVars, fieldNow, pulses, frame, variant, hasConstructor, now, resuming>>

\* morphVoiceToInstrument + updateVoiceForMix, as handlePointerMove applies them.
retargetVoice(voice, mix) ==
  [voice EXCEPT
     !.instrument = IF voice.currentCellIndex # mix.primaryCell THEN mix.primaryCell ELSE @,
     !.currentCellIndex = mix.primaryCell,
     !.frequency = mix.blendedFrequency]

\* handlePointerMove with the `!meta` return moved below the emitter update: a
\* move of a pointer without PointerMeta lights its emitter.
pointerMoveGrid_emitsFirst(s, id, x, y, ctx, t) ==
  LET meta == s.meta[id]
      v == s.voices[id]
      mix == computeCellMix(x, y, WIDTH, HEIGHT)
  IN  IF meta = NoMeta THEN setEmitter(s, id, mix.blendedFrequency, t)
      ELSE
        LET s1 == setEmitter(
                    [s EXCEPT !.meta[id] =
                       [meta EXCEPT !.lastX = x, !.lastY = y,
                                    !.totalDistance = @ + hypot(x - meta.lastX, y - meta.lastY),
                                    !.currentCellIndex = mix.primaryCell,
                                    !.lastFrequency = mix.blendedFrequency]],
                    id, mix.blendedFrequency, t)
        IN  IF v = 0 \/ ctx = "null" THEN s1
            ELSE [s1 EXCEPT !.graph[v] = retargetVoice(@, mix)]

\* Grid handlePointerMove.
pointerMoveGrid(s, id, x, y, ctx, t) ==
  LET meta == s.meta[id]
      v == s.voices[id]
      mix == computeCellMix(x, y, WIDTH, HEIGHT)
  IN  IF meta = NoMeta THEN s
      ELSE
        LET s1 == setEmitter(
                    [s EXCEPT !.meta[id] =
                       [meta EXCEPT !.lastX = x, !.lastY = y,
                                    !.totalDistance = @ + hypot(x - meta.lastX, y - meta.lastY),
                                    !.currentCellIndex = mix.primaryCell,
                                    !.lastFrequency = mix.blendedFrequency]],
                    id, mix.blendedFrequency, t)
        IN  IF v = 0 \/ ctx = "null" THEN s1
            ELSE [s1 EXCEPT !.graph[v] = retargetVoice(@, mix)]

handlePointerMoveGrid(id, x, y) ==
  /\ variant = "grid"
  /\ resuming = "no"
  /\ MayMove(id, x, y)
  /\ gesture' = [gesture EXCEPT ![id] = gestureMove(@, x, y)]
  /\ Commit(pointerMoveGrid(Refs, id, x, y, audioContextRef, now))
  /\ UNCHANGED <<componentVars, fieldNow, pulses, frame, variant, hasConstructor, now, audioContextRef, pendingDowns, resuming>>

\* The cell handlePointerUp hands to playTapSound.
tapCell(meta) == IF meta.currentCellIndex \in CellIds THEN meta.currentCellIndex ELSE 0

\* playTapSound(context, cell, ...), as far as the history shows it.
playTapSound(s, id, cell) ==
  [s EXCEPT !.shots[id].chime = @ + 1, !.shots[id].pitch = CellFrequency(cell),
            !.shots[id].gain = GRID_CELLS[cell].instrument.tapGain]

pointerUpGrid(s, id, ctx, t) ==
  LET meta == s.meta[id]
      s1 == releaseEmitter(stopVoiceGrid([s EXCEPT !.active = @ \ {id}], id, ctx, t), id, t)
      s2 == [s1 EXCEPT !.meta[id] = NoMeta]
  IN  IF ctx = "null" \/ meta = NoMeta THEN s2
      ELSE IF isTap(meta, t) THEN playTapSound(s2, id, tapCell(meta))
      ELSE s2

handlePointerUpGrid(id, x, y) ==
  /\ variant = "grid"
  /\ resuming = "no"
  /\ gesture' = [gesture EXCEPT ![id] = gestureEnd(@, "up", voicesRef[id] # 0)]
  /\ pendingDowns' = markReleased(pendingDowns, id)
  /\ Commit(pointerUpGrid(Refs, id, audioContextRef, now))
  /\ UNCHANGED <<componentVars, fieldNow, pulses, frame, variant, hasConstructor, now, audioContextRef, resuming>>

pointerCancelGrid(s, id, ctx, t) ==
  releaseEmitter(
    [stopVoiceGrid([s EXCEPT !.active = @ \ {id}], id, ctx, t) EXCEPT !.meta[id] = NoMeta],
    id, t)

handlePointerCancelGrid(id) ==
  /\ variant = "grid"
  /\ resuming = "no"
  /\ gesture' = [gesture EXCEPT ![id] = gestureEnd(@, "cancel", voicesRef[id] # 0)]
  /\ pendingDowns' = markReleased(pendingDowns, id)
  /\ Commit(pointerCancelGrid(Refs, id, audioContextRef, now))
  /\ UNCHANGED <<componentVars, fieldNow, pulses, frame, variant, hasConstructor, now, audioContextRef, resuming>>

(* ------------------------ the await and the clock ---------------------- *)

\* context.resume() settles. Every promise pending on the context is settled
\* in one task, oldest first, and the awaiting handlePointerDown calls go on
\* before another event is dispatched: `resuming` holds events back until
\* pendingDowns is empty.
ResumeResolve ==
  /\ pendingDowns # <<>>
  /\ resuming \in {"no", "resolve"}
  /\ Commit(IF variant = "lead"
              THEN afterAwaitLP(Refs, Head(pendingDowns), now)
              ELSE afterAwaitGrid(Refs, Head(pendingDowns), now))
  /\ audioContextRef' = "running"
  /\ pendingDowns' = Tail(pendingDowns)
  /\ resuming' = IF Tail(pendingDowns) # <<>> THEN "resolve" ELSE "no"
  /\ UNCHANGED <<componentVars, fieldNow, pulses, frame, variant, hasConstructor, now, gesture>>

ResumeReject ==
  /\ pendingDowns # <<>>
  /\ resuming \in {"no", "reject"}
  /\ Commit(IF variant = "lead"
              THEN catchLP(Refs, Head(pendingDowns).pointerId, now)
              ELSE catchGrid(Refs, Head(pendingDowns).pointerId, now))
  /\ pendingDowns' = Tail(pendingDowns)
  /\ resuming' = IF Tail(pendingDowns) # <<>> THEN "reject" ELSE "no"
  /\ UNCHANGED <<componentVars, fieldNow, pulses, frame, variant, hasConstructor, now, audioContextRef, gesture>>

Tick ==
  /\ resuming = "no"
  /\ now + TickMs <= MaxTime
  /\ now' = now + TickMs
  /\ UNCHANGED <<componentVars, fieldNow, pulses, frame, variant, hasConstructor, audioContextRef, pendingDowns, resuming,
                 voicesRef, audioGraph, releaseTimersRef, timeouts, activePointersRef,
                 pointerMetaRef, emitters, oneShots, gesture>>

Next ==
  \/ \E id \in PointerIds, p \in Positions : handlePointerDownLP(id, p[1], p[2])
  \/ \E id \in PointerIds, p \in Positions : handlePointerMoveLP(id, p[1], p[2])
  \/ \E id \in PointerIds, p \in Positions : handlePointerUpLP(id, p[1], p[2])
  \/ \E id \in PointerIds : handlePointerCancelLP(id)
  \/ \E id \in PointerIds, p \in Positions : handlePointerDownGrid(id, p[1], p[2])
  \/ \E id \in PointerIds, p \in Positions : handlePointerMoveGrid(id, p[1], p[2])
  \/ \E id \in PointerIds, p \in Positions : handlePointerUpGrid(id, p[1], p[2])
  \/ \E id \in PointerIds : handlePointerCancelGrid(id)
  \/ \E tm \in timeouts : TimeoutFire(tm)
  \/ ResumeResolve
  \/ ResumeReject
  \/ Tick

Spec == Init /\ [][Next]_vars

(* ------------------------- RainbowField: frames ------------------------ *)

\* The field on its own: setEmitter, releaseEmitter and pulse are called in
\* any order, and draw() runs whenever the browser grants a frame. The lead/pad
\* App mounts the field without colours (release 680 ms), the grid App the one
\* with colours (release 200 ms).
releaseDuration == IF variant = "grid" THEN 200 ELSE 680

\* Intensities are kept as whole numbers: an emitter's in units of
\* 1 / IntensityUnit, so that 0.85 is 170 * releaseDuration and 0.001 is
\* IntensityUnit / 1000; a pulse's in units of 1 / (10 * ttl).
IntensityUnit == 200 * releaseDuration

\* draw(): the intensity of an emitter at time t,
\* active ? 0.85 : 0.85 * clamp(1 - (t - releaseAt) / releaseDuration, 0, 1).
emitterIntensity(emitter, t) ==
  IF emitter.active
    THEN 17 * 10 * releaseDuration
    ELSE 17 * clamp(10 * releaseDuration - (t - emitter.releaseAt), 0, 10 * releaseDuration)

\* draw(): `intensity <= 0.001`.
faded(intensity) == 1000 * intensity <= IntensityUnit

\* The emitter loop without its `this.emitters.delete`: faded emitters stay
\* in the map for ever.
drawEmitters_keepsFaded(es, t) == es

\* draw(): the emitter loop, which deletes the emitters that have faded.
drawEmitters(es, t) ==
  [id \in PointerIds |->
     IF es[id] # NoEmitter /\ faded(emitterIntensity(es[id], t)) THEN NoEmitter ELSE es[id]]

\* pulse(x, y, frequency[, color], duration) at time t.
pulse(ps, frequency, duration, t) ==
  Append(ps, [frequency |-> frequency, createdAt |-> t, ttl |-> duration])

\* draw(): the intensity of a pulse at time t, 0.9 * (1 - age / ttl).
pulseIntensity(p, t) == 9 * (p.ttl - (t - p.createdAt))

\* The pulse loop with `age >= pulse.ttl` for `age > pulse.ttl`: a pulse is
\* dropped one frame early, before it was drawn at intensity 0.
drawPulses_dropsAtTtl(ps, t) == SelectSeq(ps, LAMBDA p : ~(t - p.createdAt >= p.ttl))

\* draw(): the pulse loop, which keeps the pulses that have not expired.
drawPulses(ps, t) == SelectSeq(ps, LAMBDA p : ~(t - p.createdAt > p.ttl))

\* The frequencies and the durations the Apps hand to the field: two tones,
\* and the 1100 ms and 1200 ms of the chime, tap and shimmer pulses.
FieldFrequencies == {22000, 44000}
PulseDurations == {11000, 12000}

\* The times between two looks at the clock: half a release, or a tenth of a
\* millisecond less, for the emitters; half a pulse for the pulses.
EmitterStep(early) == 5 * releaseDuration - (IF early THEN 1 ELSE 0)
PulseSteps == {5500, 6000}

SetEmitterCall(id, frequency) ==
  /\ emitters' = setEmitter(Refs, id, frequency, fieldNow).emitters
  /\ frame' = IF emitters[id] = NoEmitter \/ ~emitters[id].active
                THEN [frame EXCEPT !.reactivated = @ \cup {id}]
                ELSE frame
  /\ UNCHANGED <<componentVars, appVars, fieldNow, pulses>>

ReleaseEmitterCall(id) ==
  /\ emitters' = releaseEmitter(Refs, id, fieldNow).emitters
  /\ UNCHANGED <<componentVars, appVars, fieldVars>>

PulseCall(frequency, duration) ==
  /\ Len(pulses) < MaxPulses
  /\ pulses' = pulse(pulses, frequency, duration, fieldNow)
  /\ UNCHANGED <<componentVars, appVars, emitters, fieldNow, frame>>

\* One run of draw() from the requestAnimationFrame loop.
Draw ==
  /\ emitters' = drawEmitters(emitters, fieldNow)
  /\ pulses' = drawPulses(pulses, fieldNow)
  /\ frame' = [emitters |-> [id \in PointerIds |->
                               IF emitters[id] = NoEmitter THEN -1
                               ELSE emitterIntensity(emitters[id], fieldNow)],
               pulses |-> [j \in DOMAIN pulses' |-> pulseIntensity(pulses'[j], fieldNow)],
               dropped |-> Len(pulses) - Len(pulses'),
               reactivated |-> {}]
  /\ UNCHANGED <<componentVars, appVars, fieldNow>>

EmitterTick(early) ==
  /\ fieldNow + EmitterStep(early) <= MaxFrames * 5 * releaseDuration
  /\ fieldNow' = fieldNow + EmitterStep(early)
  /\ UNCHANGED <<componentVars, appVars, emitters, pulses, frame>>

PulseTick(d) ==
  /\ fieldNow + d <= MaxFrames * 6000
  /\ fieldNow' = fieldNow + d
  /\ UNCHANGED <<componentVars, appVars, emitters, pulses, frame>>

EmitterNext ==
  \/ \E id \in PointerIds, frequency \in FieldFrequencies : SetEmitterCall(id, frequency)
  \/ \E id \in PointerIds : ReleaseEmitterCall(id)
  \/ Draw
  \/ \E early \in BOOLEAN : EmitterTick(early)

EmitterSpec == Init /\ [][EmitterNext]_vars

PulseNext ==
  \/ \E frequency \in FieldFrequencies, duration \in PulseDurations : PulseCall(frequency, duration)
  \/ Draw
  \/ \E d \in PulseSteps : PulseTick(d)

PulseSpec == Init /\ [][PulseNext]_vars

(* ------------------------------ the mapper ----------------------------- *)

\* getGainForPosition with the inner clamp of y / height left out: the gain
\* follows the line beyond the container's edges, up to the outer clamp.
getGainForPosition_unclamped(y, height) ==
  IF height <= 0 THEN [num |-> 45, den |-> 100]
  ELSE LET normalizedNum == height - y
           cap == IF variant = "grid" THEN 70 ELSE 68
       IN  [num |-> clamp(18 * height + 50 * normalizedNum, 12 * height, cap * height),
            den |-> 100 * height]

\* getGainForPosition(y, height), as the fraction num / den: normalized =
\* 1 - clamp(y / height, 0, 1) is kept as normalizedNum / height. The outer
\* clamp ends at 0.68 in the lead/pad App and at 0.7 in the grid App.
getGainForPosition(y, height) ==
  IF height <= 0 THEN [num |-> 45, den |-> 100]
  ELSE LET normalizedNum == height - clamp(y, 0, height)
           cap == IF variant = "grid" THEN 70 ELSE 68
       IN  [num |-> clamp(18 * height + 50 * normalizedNum, 12 * height, cap * height),
            den |-> 100 * height]

\* The rectangles the mapper is probed in, and the positions: MapSteps
\* columns and MapRows rows of probe points, with a margin around the
\* rectangle that pointer capture makes reachable.
MapWidth == 18
MapHeight == 10
MapSteps == 18
MapRows == 4
MapperRects ==
  {[width |-> MapWidth, height |-> MapHeight], [width |-> WIDTH, height |-> HEIGHT]}

\* What the handlers derive from an event at (x, y): the lead/pad App its
\* frequency and gain, the grid App its cell.
mapPosition(x, y) ==
  LET mix == computeCellMix(x, y, rect.width, rect.height)
  IN  [x |-> x, y |-> y,
       frequency |-> getFrequencyForPosition(x, rect.width),
       gain |-> getGainForPosition(y, rect.height),
       rowIndex |-> mix.rowIndex, columnIndex |-> mix.columnIndex,
       cell |-> GRID_CELLS[mix.primaryCell]]

MapPosition(i, j) ==
  /\ mapped' = mapPosition((i * rect.width) \div MapSteps, (j * rect.height) \div MapRows)
  /\ UNCHANGED <<pipelineVars, rect, particleVars, shotVars, sequencerVars, lateVars>>

MapperInit ==
  /\ PipelineInit
  /\ hasConstructor
  /\ rect \in MapperRects
  /\ mapped = NoMapped
  /\ ParticlesIdle
  /\ OneShotsIdle
  /\ SequencerIdle
  /\ LateIdle

MapperNext ==
  \E i \in (-1)..(MapSteps + 1), j \in (-MapRows)..(3 * MapRows) : MapPosition(i, j)

MapperSpec == MapperInit /\ [][MapperNext]_vars

(* ------------------------------ particles ------------------------------ *)

\* The particle list holds runs: [id, n, ...] stands for the n particles with
\* ids id .. id + n - 1 that one spawn call after another pushed with the same
\* values. Times are ms; speeds are milli-pixels per second, so that positions
\* are micro-pixels and sizes are milli-pixels; spin is in thousandths.

\* The bursts spawned after the first ones, the clock horizon of the
\* animation loop, and the time between two animation frames.
MaxBursts == 2
MaxParticleTime == 700
FrameGapMs == 60

\* Math.random() is one of these throughout a run, in hundredths: the burst
\* angle is then a multiple of a quarter turn.
Randoms == {0, 25, 50, 75}
\* The variants bursts are spawned with, and where.
BurstVariants == {"lead", "chime"}
BurstX == 100
BurstY == 100

AURORA_CAP == 1600
INLINE_CAP == 240
INLINE_COUNT == 6
GRAVITY == 22
MAX_DELTA_MS == 45

VARIANT_CONFIG(v) ==
  CASE v = "lead" ->
         [minSpeed |-> 120, maxSpeed |-> 240, count |-> 16, ttl |-> <<650, 1100>>,
          size |-> <<12, 22>>, growth |-> <<16, 36>>, drag |-> 86,
          spin |-> <<-1600, 1600>>, turbulence |-> 18]
    [] v = "pad" ->
         [minSpeed |-> 60, maxSpeed |-> 140, count |-> 24, ttl |-> <<1250, 1800>>,
          size |-> <<22, 40>>, growth |-> <<12, 26>>, drag |-> 90,
          spin |-> <<-800, 800>>, turbulence |-> 28]
    [] v = "chime" ->
         [minSpeed |-> 220, maxSpeed |-> 420, count |-> 28, ttl |-> <<450, 800>>,
          size |-> <<10, 18>>, growth |-> <<30, 46>>, drag |-> 82,
          spin |-> <<-2600, 2600>>, turbulence |-> 42]
    [] OTHER ->
         [minSpeed |-> 140, maxSpeed |-> 260, count |-> 34, ttl |-> <<800, 1400>>,
          size |-> <<16, 28>>, growth |-> <<18, 34>>, drag |-> 87,
          spin |-> <<-3200, 3200>>, turbulence |-> 56]

\* randomInRange(min, max) with Math.random() = r / 100.
randomInRange(lo, hi, r) == (r * (hi - lo)) \div 100 + lo

\* Math.cos and Math.sin of the angle Math.random() * Math.PI * 2.
cosTurn(r) == CASE r = 0 -> 1 [] r = 50 -> -1 [] OTHER -> 0
sinTurn(r) == CASE r = 25 -> 1 [] r = 75 -> -1 [] OTHER -> 0

RECURSIVE particleCount(_)
\* particles.length
particleCount(ps) == IF ps = <<>> THEN 0 ELSE Head(ps).n + particleCount(Tail(ps))

\* particles.push(...) of n particles alike: they join the last run when they
\* continue it.
pushAll(ps, run) ==
  IF /\ ps # <<>>
     /\ ps[Len(ps)].id + ps[Len(ps)].n = run.id
     /\ [ps[Len(ps)] EXCEPT !.id = 0, !.n = 0] = [run EXCEPT !.id = 0, !.n = 0]
    THEN [ps EXCEPT ![Len(ps)].n = @ + run.n]
    ELSE Append(ps, run)

RECURSIVE dropOldest(_, _)
\* particles.splice(0, k), and particles.slice(k) of the inline App.
dropOldest(ps, k) ==
  IF k <= 0 \/ ps = <<>> THEN ps
  ELSE IF Head(ps).n <= k THEN dropOldest(Tail(ps), k - Head(ps).n)
  ELSE <<[Head(ps) EXCEPT !.id = @ + k, !.n = @ - k]>> \o Tail(ps)

RECURSIVE dropNewest(_, _)
\* particles.splice(cap): what is beyond the first `keep` particles goes.
dropNewest(ps, keep) ==
  IF ps = <<>> \/ keep <= 0 THEN <<>>
  ELSE IF Head(ps).n <= keep THEN <<Head(ps)>> \o dropNewest(Tail(ps), keep - Head(ps).n)
  ELSE <<[Head(ps) EXCEPT !.n = keep]>>

\* spawnBurst with the cap applied from the wrong end: the particles beyond the
\* first 1600 are discarded, which are the newest.
spawnBurst_keepsOldest(f, x, y, v, r) ==
  LET config == VARIANT_CONFIG(v)
      speed == randomInRange(config.minSpeed, config.maxSpeed, r)
      ttl == randomInRange(config.ttl[1], config.ttl[2], r)
      run == [id |-> f.PARTICLE_ID, n |-> config.count,
              x |-> x * 1000000, y |-> y * 1000000,
              vx |-> cosTurn(r) * speed * 1000, vy |-> sinTurn(r) * speed * 1000,
              life |-> ttl, ttl |-> ttl,
              size |-> randomInRange(config.size[1], config.size[2], r) * 1000,
              growth |-> randomInRange(config.growth[1], config.growth[2], r),
              spin |-> randomInRange(config.spin[1], config.spin[2], r)]
      pushed == pushAll(f.particles, run)
  IN  [particles |-> IF particleCount(pushed) > AURORA_CAP
                       THEN dropNewest(pushed, AURORA_CAP)
                       ELSE pushed,
       PARTICLE_ID |-> f.PARTICLE_ID + config.count]

\* AuroraField.spawnBurst(x, y, color, variant) on f = [particles, PARTICLE_ID].
spawnBurst(f, x, y, v, r) ==
  LET config == VARIANT_CONFIG(v)
      speed == randomInRange(config.minSpeed, config.maxSpeed, r)
      ttl == randomInRange(config.ttl[1], config.ttl[2], r)
      run == [id |-> f.PARTICLE_ID, n |-> config.count,
              x |-> x * 1000000, y |-> y * 1000000,
              vx |-> cosTurn(r) * speed * 1000, vy |-> sinTurn(r) * speed * 1000,
              life |-> ttl, ttl |-> ttl,
              size |-> randomInRange(config.size[1], config.size[2], r) * 1000,
              growth |-> randomInRange(config.growth[1], config.growth[2], r),
              spin |-> randomInRange(config.spin[1], config.spin[2], r)]
      pushed == pushAll(f.particles, run)
  IN  [particles |-> IF particleCount(pushed) > AURORA_CAP
                       THEN dropOldest(pushed, particleCount(pushed) - AURORA_CAP)
                       ELSE pushed,
       PARTICLE_ID |-> f.PARTICLE_ID + config.count]

\* spawnParticles(x, y, color) of the inline App.
spawnParticles(f, x, y, r) ==
  LET speed == 40 + (r * 120) \div 100
      ttl == 600 + (r * 400) \div 100
      run == [id |-> f.PARTICLE_ID, n |-> INLINE_COUNT,
              x |-> x * 1000000, y |-> y * 1000000,
              vx |-> cosTurn(r) * speed * 1000, vy |-> sinTurn(r) * speed * 1000,
              life |-> ttl, ttl |-> ttl,
              size |-> (24 + (r * 16) \div 100) * 1000]
      pushed == pushAll(f.particles, run)
  IN  [particles |-> IF particleCount(pushed) > INLINE_CAP
                       THEN dropOldest(pushed, particleCount(pushed) - INLINE_CAP)
                       ELSE pushed,
       PARTICLE_ID |-> f.PARTICLE_ID + INLINE_COUNT]

getVariantForParticle(p) ==
  IF p.ttl > 1400 THEN "pad"
  ELSE IF p.ttl < 600 /\ p.growth > 32 THEN "chime"
  ELSE IF p.spin > 2000 \/ p.spin < -2000 THEN "shimmer"
  ELSE "lead"

\* AuroraField.update(delta), delta in ms: x and y are copied by the spread.
update(ps, delta, r) ==
  LET moved(p) ==
        LET config == VARIANT_CONFIG(getVariantForParticle(p))
            turbulence == ((r - 50) * config.turbulence * delta) \div 100
        IN  [p EXCEPT !.life = @ - delta,
                      !.vx = ((@ + turbulence) * config.drag) \div 100,
                      !.vy = ((@ + turbulence + GRAVITY * delta) * config.drag) \div 100,
                      !.size = @ + p.growth * delta,
                      !.spin = (@ * (5000 - delta)) \div 5000]
  IN  SelectSeq([k \in DOMAIN ps |-> moved(ps[k])], LAMBDA p : p.life > 0)

\* The map and filter of tick(time) in the inline App, delta in ms.
tick(ps, delta) ==
  LET moved(p) == [p EXCEPT !.life = @ - delta,
                            !.x = @ + p.vx * delta,
                            !.y = @ + p.vy * delta]
  IN  IF Len(ps) > 0
        THEN SelectSeq([k \in DOMAIN ps |-> moved(ps[k])], LAMBDA p : p.life > 0)
        ELSE ps

\* The frame delta in ms: (time - lastTime) / 1000 s, which AuroraField caps
\* at 0.045 s.
frameDelta(host, last, time) ==
  LET raw == IF last = -1 THEN 0 ELSE time - last
  IN  IF host = "aurora" THEN Min(raw, MAX_DELTA_MS) ELSE raw

SpawnBurst(v) ==
  /\ particleHost = "aurora"
  /\ bursts < MaxBursts
  /\ LET f == spawnBurst([particles |-> particles, PARTICLE_ID |-> PARTICLE_ID],
                         BurstX, BurstY, v, random)
     IN  /\ particles' = f.particles
         /\ PARTICLE_ID' = f.PARTICLE_ID
  /\ bursts' = bursts + 1
  /\ UNCHANGED <<pipelineVars, mapperVars, shotVars, sequencerVars, lateVars, particleHost, random, lastTime>>

SpawnParticles ==
  /\ particleHost = "inline"
  /\ bursts < MaxBursts
  /\ LET f == spawnParticles([particles |-> particles, PARTICLE_ID |-> PARTICLE_ID],
                             BurstX, BurstY, random)
     IN  /\ particles' = f.particles
         /\ PARTICLE_ID' = f.PARTICLE_ID
  /\ bursts' = bursts + 1
  /\ UNCHANGED <<pipelineVars, mapperVars, shotVars, sequencerVars, lateVars, particleHost, random, lastTime>>

\* One run of AuroraField's loop(time), FrameGapMs after the last one.
AuroraLoop ==
  LET time == (IF lastTime = -1 THEN 0 ELSE lastTime) + FrameGapMs
  IN  /\ particleHost = "aurora"
      /\ time <= MaxParticleTime
      /\ particles' = update(particles, frameDelta("aurora", lastTime, time), random)
      /\ lastTime' = time
      /\ UNCHANGED <<pipelineVars, mapperVars, shotVars, sequencerVars, lateVars, particleHost, random, PARTICLE_ID, bursts>>

\* One run of the inline App's tick(time), FrameGapMs after the last one.
ParticleTick ==
  LET time == (IF lastTime = -1 THEN 0 ELSE lastTime) + FrameGapMs
  IN  /\ particleHost = "inline"
      /\ time <= MaxParticleTime
      /\ particles' = tick(particles, frameDelta("inline", lastTime, time))
      /\ lastTime' = time
      /\ UNCHANGED <<pipelineVars, mapperVars, shotVars, sequencerVars, lateVars, particleHost, random, PARTICLE_ID, bursts>>

\* The field after k spawn calls in a row, before the first frame: the
\* particles are alike, so they form one run, k times as long as the first
\* call's (k calls stay below the cap).
spawnedBefore(host, r, k) ==
  LET none == [particles |-> <<>>, PARTICLE_ID |-> 0]
      one == IF host = "aurora" THEN spawnBurst(none, BurstX, BurstY, "lead", r)
             ELSE spawnParticles(none, BurstX, BurstY, r)
  IN  IF k = 0 THEN none
      ELSE [particles |-> <<[one.particles[1] EXCEPT !.n = k * @]>>,
            PARTICLE_ID |-> k * one.PARTICLE_ID]

\* The spawn calls that fill the list to one burst below the cap.
NearCap(host) ==
  IF host = "aurora" THEN AURORA_CAP \div VARIANT_CONFIG("lead").count - 1
  ELSE INLINE_CAP \div INLINE_COUNT - 1

ParticleInit ==
  /\ PipelineIdle
  /\ MapperIdle
  /\ particleHost \in {"aurora", "inline"}
  /\ random \in Randoms
  /\ \E k \in {0, NearCap(particleHost)} :
       /\ particles = spawnedBefore(particleHost, random, k).particles
       /\ PARTICLE_ID = spawnedBefore(particleHost, random, k).PARTICLE_ID
  /\ lastTime = -1
  /\ bursts = 0
  /\ OneShotsIdle
  /\ SequencerIdle
  /\ LateIdle

ParticleNext ==
  \/ \E v \in BurstVariants : SpawnBurst(v)
  \/ SpawnParticles
  \/ AuroraLoop
  \/ ParticleTick

ParticleSpec == ParticleInit /\ [][ParticleNext]_vars

(* ------------------------------ one-shots ------------------------------ *)

\* The one-shots scheduled in a run, the Voices held, the audio clock's
\* horizon and step, and the base frequency the one-shots are triggered at.
MaxShots == 2
MaxHeld == 1
MaxAudioTime == 1600
AudioTickMs == 400
ShotFrequency == 44000
\* The cells tapped: a percussive one and a declared one.
TapCells == {0, 1}

ARPEGGIO_STEP_MS == 80
ARPEGGIO_LENGTH_MS == 650
CHIME_LENGTH_MS == 1200
TAP_TAIL_MS == 300

\* triggerShimmerArpeggio's intervals, in semitones.
intervals == <<0, 7, 12, 19>>

\* Math.pow(2, semitones / 12) for the arpeggio's intervals, in 1/10000.
semitoneRatio(semitones) ==
  CASE semitones = 0 -> 10000
    [] semitones = 7 -> 14983
    [] semitones = 12 -> 20000
    [] OTHER -> 29966

\* context.createOscillator() and its like: the nodes of `kinds`, created for
\* the `owner`-th one-shot or Voice and connected towards the destination.
createNodes(ns, kinds, of, owner) ==
  ns \o [k \in 1..Len(kinds) |->
           [kind |-> kinds[k], of |-> of, owner |-> owner, connected |-> TRUE,
            disconnects |-> 0]]

\* One oscillator with its envelope, started at `start` and stopped at `stop`;
\* `held` are the nodes its onended handler closes over.
oneShot(a, kind, kinds, base, semitones, frequency, start, stop) ==
  [nodes |-> createNodes(a.nodes, kinds, "shot", Len(a.shots) + 1),
   shots |-> Append(a.shots,
                    [kind |-> kind, base |-> base, semitones |-> semitones,
                     frequency |-> frequency, start |-> start, stop |-> stop,
                     held |-> (Len(a.nodes) + 1)..(Len(a.nodes) + Len(kinds)),
                     ended |-> FALSE])]

\* The arpeggio's note without `index * 0.08`: the four notes start together.
shimmerNote_sameStart(a, baseFrequency, t, index) ==
  LET semitones == intervals[index + 1]
      start == t
  IN  oneShot(a, "shimmer", <<"osc", "gain">>, baseFrequency, semitones,
              (baseFrequency * semitoneRatio(semitones)) \div 10000,
              start, start + ARPEGGIO_LENGTH_MS)

\* triggerShimmerArpeggio: the body of intervals.forEach((semitones, index) => ...).
shimmerNote(a, baseFrequency, t, index) ==
  LET semitones == intervals[index + 1]
      start == t + index * ARPEGGIO_STEP_MS
  IN  oneShot(a, "shimmer", <<"osc", "gain">>, baseFrequency, semitones,
              (baseFrequency * semitoneRatio(semitones)) \div 10000,
              start, start + ARPEGGIO_LENGTH_MS)

RECURSIVE shimmerNotes(_, _, _, _)
\* triggerShimmerArpeggio: intervals.forEach from `index` on, at time t.
shimmerNotes(a, baseFrequency, t, index) ==
  IF index >= Len(intervals) THEN a
  ELSE shimmerNotes(shimmerNote(a, baseFrequency, t, index), baseFrequency, t, index + 1)

\* triggerBellChime: osc, gain and shimmer, stopped 1.2 s later.
bellChime(a, baseFrequency, t) ==
  oneShot(a, "chime", <<"osc", "gain", "shimmer">>, baseFrequency, 0, baseFrequency,
          t, t + CHIME_LENGTH_MS)

\* 2^octaveOffset for the offsets the instruments use.
octaveRatio(octaveOffset) == IF octaveOffset = 1 THEN 2 ELSE 1

\* playTapSound: oscillator, gain and filter.
tapSound(a, cell, t) ==
  LET tap == GRID_CELLS[cell].instrument
      baseFrequency == GRID_CELLS[cell].frequency * octaveRatio(tap.tapOctave) + tap.tapDetune
  IN  oneShot(a, "tap", <<"oscillator", "gain", "filter">>, GRID_CELLS[cell].frequency, 0,
              baseFrequency, t, t + tap.tapLength + TAP_TAIL_MS)

\* A one-shot's osc.onended.
onended(a, k) ==
  [nodes |-> [n \in DOMAIN a.nodes |->
                IF n \in a.shots[k].held
                  THEN [a.nodes[n] EXCEPT !.connected = FALSE, !.disconnects = @ + 1]
                  ELSE a.nodes[n]],
   shots |-> [a.shots EXCEPT ![k].ended = TRUE]]

Audio == [nodes |-> nodes, shots |-> shots]

TriggerShimmerArpeggio ==
  /\ variant = "lead"
  /\ Len(shots) < MaxShots
  /\ LET a == shimmerNotes(Audio, ShotFrequency, currentTime, 0)
     IN  nodes' = a.nodes /\ shots' = a.shots
  /\ UNCHANGED <<pipelineVars, mapperVars, particleVars, sequencerVars, lateVars, currentTime, heldVoices>>

TriggerBellChime ==
  /\ variant = "lead"
  /\ Len(shots) < MaxShots
  /\ LET a == bellChime(Audio, ShotFrequency, currentTime)
     IN  nodes' = a.nodes /\ shots' = a.shots
  /\ UNCHANGED <<pipelineVars, mapperVars, particleVars, sequencerVars, lateVars, currentTime, heldVoices>>

PlayTapSound(cell) ==
  /\ variant = "grid"
  /\ Len(shots) < MaxShots
  /\ LET a == tapSound(Audio, cell, currentTime)
     IN  nodes' = a.nodes /\ shots' = a.shots
  /\ UNCHANGED <<pipelineVars, mapperVars, particleVars, sequencerVars, lateVars, currentTime, heldVoices>>

\* The browser dispatches `ended` once the oscillator's stop time has come,
\* one oscillator after the other in the order of their stop times.
OscillatorEnded(k) ==
  /\ k \in DOMAIN shots
  /\ ~shots[k].ended
  /\ shots[k].stop <= currentTime
  /\ \A j \in DOMAIN shots : ~shots[j].ended => shots[k].stop <= shots[j].stop
  /\ LET a == onended(Audio, k)
     IN  nodes' = a.nodes /\ shots' = a.shots
  /\ UNCHANGED <<pipelineVars, mapperVars, particleVars, sequencerVars, lateVars, currentTime, heldVoices>>

\* The nodes a Voice is made of: the lead/pad App's handlePointerDown creates
\* oscillator, filter and gain, the grid App's createVoice creates oscillator,
\* gain, filter, vibratoOsc and vibratoGain; both add a panner when the context
\* has createStereoPanner.
voiceKinds(app, stereo) ==
  (IF app = "grid" THEN <<"oscillator", "gain", "filter", "vibratoOsc", "vibratoGain">>
                   ELSE <<"oscillator", "filter", "gain">>)
    \o (IF stereo THEN <<"panner">> ELSE <<>>)

createVoice(ns, app, stereo, owner) == createNodes(ns, voiceKinds(app, stereo), "voice", owner)

\* The nodes the timeout of stopVoice calls disconnect() on.
teardownKinds(app) ==
  IF app = "grid" THEN {"oscillator", "vibratoOsc", "filter", "panner", "gain"}
                  ELSE {"oscillator", "filter", "panner", "gain"}

\* The callback stopVoice hands to window.setTimeout.
disconnectVoice(ns, voice) ==
  [n \in DOMAIN ns |->
     IF n \in voice.held /\ ns[n].kind \in teardownKinds(voice.app)
       THEN [ns[n] EXCEPT !.connected = FALSE, !.disconnects = @ + 1]
       ELSE ns[n]]

\* handlePointerDown creating a Voice of the App that is mounted; stereo is
\* whether the context has createStereoPanner.
VoiceStart(stereo) ==
  /\ Len(heldVoices) < MaxHeld
  /\ nodes' = createVoice(nodes, variant, stereo, Len(heldVoices) + 1)
  /\ heldVoices' = Append(heldVoices,
                          [app |-> variant,
                           held |-> (Len(nodes) + 1)..(Len(nodes) + Len(voiceKinds(variant, stereo))),
                           released |-> FALSE])
  /\ UNCHANGED <<pipelineVars, mapperVars, particleVars, sequencerVars, lateVars, currentTime, shots>>

\* stopVoice and its timeout: the Voice's nodes are disconnected.
VoiceRelease(v) ==
  /\ v \in DOMAIN heldVoices
  /\ ~heldVoices[v].released
  /\ nodes' = disconnectVoice(nodes, heldVoices[v])
  /\ heldVoices' = [heldVoices EXCEPT ![v].released = TRUE]
  /\ UNCHANGED <<pipelineVars, mapperVars, particleVars, sequencerVars, lateVars, currentTime, shots>>

\* The audio clock moves on once the `ended` events that are due have run.
AudioTick ==
  /\ currentTime + AudioTickMs <= MaxAudioTime
  /\ \A k \in DOMAIN shots : shots[k].stop <= currentTime => shots[k].ended
  /\ currentTime' = currentTime + AudioTickMs
  /\ UNCHANGED <<pipelineVars, mapperVars, particleVars, sequencerVars, lateVars, nodes, shots, heldVoices>>

OneShotInit ==
  /\ PipelineInit
  /\ hasConstructor
  /\ MapperIdle
  /\ ParticlesIdle
  /\ OneShotsIdle
  /\ SequencerIdle
  /\ LateIdle

OneShotNext ==
  \/ TriggerShimmerArpeggio
  \/ TriggerBellChime
  \/ \E cell \in TapCells : PlayTapSound(cell)
  \/ \E k \in 1..(MaxShots + Len(intervals)) : OscillatorEnded(k)
  \/ \E stereo \in BOOLEAN : VoiceStart(stereo)
  \/ \E v \in 1..MaxHeld : VoiceRelease(v)
  \/ AudioTick

OneShotSpec == OneShotInit /\ [][OneShotNext]_vars

(* ======================= patch sequencer: tiles ========================= *)
\* PatchSequencer.tsx. A tile is <<row, column>>; its key in holdTimersRef and
\* holdTriggeredRef is "row-column", one key per tile. Times are ms. gridRef is
\* written from grid by an effect after every render and is modelled by grid.

MaxPresses == 3
PressTickMs == 1000
MaxPressTime == 4000

HOLD_MS == 2000

INSTRUMENTS == <<"kick", "snare", "cymbal", "synth", "guitar", "bass", "piano">>

findIndex(currentId) ==
  IF \E i \in 1..Len(INSTRUMENTS) : INSTRUMENTS[i] = currentId
    THEN (CHOOSE i \in 1..Len(INSTRUMENTS) : INSTRUMENTS[i] = currentId) - 1
    ELSE -1

getNextInstrumentId(currentId) ==
  IF currentId = "null" THEN INSTRUMENTS[1]
  ELSE LET index == findIndex(currentId)
       IN IF index = -1 THEN INSTRUMENTS[1]
          ELSE INSTRUMENTS[((index + 1) % Len(INSTRUMENTS)) + 1]

\* window.clearTimeout: the pending timer of that id, if any, never fires.
clearTimeout(pending, timer) == {t \in pending : t.id # timer}

\* The sequencer's tile state as one record, for the handlers below.
PressRefs ==
  [grid |-> grid, holdTriggeredRef |-> holdTriggeredRef, holdTimersRef |-> holdTimersRef,
   holdTimeouts |-> holdTimeouts, nextTimerId |-> nextTimerId]

handlePressStart(s, tile, time) ==
  [s EXCEPT !.holdTriggeredRef[tile] = "false",
            !.holdTimeouts = @ \cup {[id |-> s.nextTimerId, tile |-> tile, at |-> time + HOLD_MS]},
            !.holdTimersRef[tile] = s.nextTimerId,
            !.nextTimerId = @ + 1]

clearPressState(s, tile) ==
  LET timer == s.holdTimersRef[tile]
  IN IF timer # 0
       THEN [s EXCEPT !.holdTimeouts = clearTimeout(@, timer), !.holdTimersRef[tile] = 0]
       ELSE s

handlePressEnd(s, tile, shouldAdvance) ==
  LET wasHeld == s.holdTriggeredRef[tile] = "true"
      s1 == clearPressState([s EXCEPT !.holdTriggeredRef[tile] = "none"], tile)
  IN IF wasHeld \/ ~shouldAdvance THEN s1
     ELSE [s1 EXCEPT !.grid[tile] = getNextInstrumentId(s.grid[tile])]

\* The instrument handlePressEnd plays as a preview after it advanced a tile: none
\* while the sequencer plays or when ensureAudioContext rejects (ok is FALSE).
preview(s, tile, playing, ok) ==
  IF s.holdTriggeredRef[tile] # "true" /\ ~playing /\ ok
    THEN getNextInstrumentId(s.grid[tile])
    ELSE "null"

\* The callback handlePressStart hands to window.setTimeout.
holdTimer(s, t) ==
  [s EXCEPT !.holdTriggeredRef[t.tile] = "true",
            !.grid[t.tile] = "null",
            !.holdTimeouts = @ \ {t}]

CommitPress(s) ==
  /\ grid' = s.grid
  /\ holdTriggeredRef' = s.holdTriggeredRef
  /\ holdTimersRef' = s.holdTimersRef
  /\ holdTimeouts' = s.holdTimeouts
  /\ nextTimerId' = s.nextTimerId

\* A timer whose time has come runs before the next pointer event is handled.
TimerDue == \E t \in holdTimeouts : t.at <= pressNow

PressEvent(kind, p, tile, played) ==
  [kind |-> kind, pointer |-> p, tile |-> tile, before |-> grid[tile], played |-> played,
   heldFor |-> IF pressing[p] = NoPress THEN -1 ELSE pressNow - pressing[p].downAt,
   fired |-> pressing[p] # NoPress /\ pressing[p].fired,
   at |-> pressNow]

PointerDown(p, tile) ==
  /\ ~TimerDue
  /\ pressing[p] = NoPress
  /\ nextTimerId <= MaxPresses
  /\ CommitPress(handlePressStart(PressRefs, tile, pressNow))
  /\ pressing' = [pressing EXCEPT ![p] = [tile |-> tile, downAt |-> pressNow, fired |-> FALSE]]
  /\ lastEvent' = PressEvent("down", p, tile, "null")
  /\ UNCHANGED <<pipelineVars, mapperVars, particleVars, shotVars, lateVars, playVars, pressNow>>

\* onPointerUp, onPointerLeave and onPointerCancel of a tile: handlePressEnd.
PointerUp(p) ==
  /\ ~TimerDue
  /\ pressing[p] # NoPress
  /\ CommitPress(handlePressEnd(PressRefs, pressing[p].tile, TRUE))
  /\ pressing' = [pressing EXCEPT ![p] = NoPress]
  /\ \E ok \in BOOLEAN :
       lastEvent' = PressEvent("up", p, pressing[p].tile,
                               preview(PressRefs, pressing[p].tile, isPlaying, ok))
  /\ UNCHANGED <<pipelineVars, mapperVars, particleVars, shotVars, lateVars, playVars, pressNow>>

PointerLeave(p) ==
  /\ ~TimerDue
  /\ pressing[p] # NoPress
  /\ CommitPress(handlePressEnd(PressRefs, pressing[p].tile, FALSE))
  /\ pressing' = [pressing EXCEPT ![p] = NoPress]
  /\ lastEvent' = PressEvent("leave", p, pressing[p].tile, "null")
  /\ UNCHANGED <<pipelineVars, mapperVars, particleVars, shotVars, lateVars, playVars, pressNow>>

PointerCancel(p) ==
  /\ ~TimerDue
  /\ pressing[p] # NoPress
  /\ CommitPress(handlePressEnd(PressRefs, pressing[p].tile, FALSE))
  /\ pressing' = [pressing EXCEPT ![p] = NoPress]
  /\ lastEvent' = PressEvent("cancel", p, pressing[p].tile, "null")
  /\ UNCHANGED <<pipelineVars, mapperVars, particleVars, shotVars, lateVars, playVars, pressNow>>

HoldTimer(id) ==
  \E t \in holdTimeouts :
    /\ t.id = id
    /\ t.at <= pressNow
    /\ CommitPress(holdTimer(PressRefs, t))
    /\ lastEvent' = [kind |-> "timer", pointer |-> id, tile |-> t.tile, before |-> grid[t.tile],
                     played |-> "null",
                     heldFor |-> -1, fired |-> TRUE, at |-> t.at]
    /\ pressing' = [p \in PressPointers |->
                      IF pressing[p] # NoPress /\ pressing[p].tile = t.tile
                        THEN [pressing[p] EXCEPT !.fired = TRUE]
                        ELSE pressing[p]]
  /\ UNCHANGED <<pipelineVars, mapperVars, particleVars, shotVars, lateVars, playVars, pressNow>>

PressTick ==
  /\ ~TimerDue
  /\ pressNow + PressTickMs <= MaxPressTime
  /\ pressNow' = pressNow + PressTickMs
  /\ UNCHANGED <<pipelineVars, mapperVars, particleVars, shotVars, lateVars, playVars, grid,
                 holdTriggeredRef, holdTimersRef, holdTimeouts, nextTimerId, pressing, lastEvent>>

PressInit ==
  /\ PipelineIdle
  /\ MapperIdle
  /\ ParticlesIdle
  /\ OneShotsIdle
  /\ SequencerIdle
  /\ LateIdle

PressNext ==
  \/ \E p \in PressPointers, tile \in Tiles : PointerDown(p, tile)
  \/ \E p \in PressPointers : PointerUp(p)
  \/ \E p \in PressPointers : PointerLeave(p)
  \/ \E p \in PressPointers : PointerCancel(p)
  \/ \E id \in 1..MaxPresses : HoldTimer(id)
  \/ PressTick

PressSpec == PressInit /\ [][PressNext]_vars

(* ====================== patch sequencer: playback ======================= *)
\* PatchSequencer.tsx. Timestamps are ms; progressRef is kept in ms of the
\* current step, so progress p of the source is progressRef / STEP_DURATION_MS.
\* triggeredRows lists the calls of triggerRow the last handler made.

MaxPlayTime == 3600
MaxCancelledStarts == 1
FrameSteps == {300, 1500}

SEQUENCER_ROWS == 5
STEP_DURATION_MS == 600

PlayRefs ==
  [rowRef |-> rowRef, progressRef |-> progressRef, lastTickRef |-> lastTickRef,
   animationFrameRef |-> animationFrameRef, triggered |-> <<>>]

\* The while loop of stepAnimation: one pass per completed step.
RECURSIVE stepLoop(_, _, _)
stepLoop(totalProgress, nextRow, triggered) ==
  IF totalProgress >= STEP_DURATION_MS
    THEN stepLoop(totalProgress - STEP_DURATION_MS, (nextRow + 1) % SEQUENCER_ROWS,
                  Append(triggered, (nextRow + 1) % SEQUENCER_ROWS))
    ELSE [totalProgress |-> totalProgress, nextRow |-> nextRow, triggered |-> triggered]

stepAnimation_singleStep(s, playing, timestamp) ==
  IF ~playing THEN [s EXCEPT !.animationFrameRef = FALSE]
  ELSE LET lastTick == IF s.lastTickRef = -1 THEN timestamp ELSE s.lastTickRef
           total == s.progressRef + (timestamp - lastTick)
           done == IF total >= STEP_DURATION_MS
                     THEN [totalProgress |-> total - STEP_DURATION_MS,
                           nextRow |-> (s.rowRef + 1) % SEQUENCER_ROWS,
                           triggered |-> <<(s.rowRef + 1) % SEQUENCER_ROWS>>]
                     ELSE [totalProgress |-> total, nextRow |-> s.rowRef, triggered |-> <<>>]
       IN [rowRef |-> done.nextRow, progressRef |-> done.totalProgress,
           lastTickRef |-> timestamp, animationFrameRef |-> TRUE,
           triggered |-> done.triggered]

stepAnimation(s, playing, timestamp) ==
  IF ~playing THEN [s EXCEPT !.animationFrameRef = FALSE]
  ELSE LET lastTick == IF s.lastTickRef = -1 THEN timestamp ELSE s.lastTickRef
           delta == timestamp - lastTick
           done == stepLoop(s.progressRef + delta, s.rowRef, <<>>)
       IN [rowRef |-> done.nextRow, progressRef |-> done.totalProgress,
           lastTickRef |-> timestamp, animationFrameRef |-> TRUE,
           triggered |-> done.triggered]

\* start() without `if (cancelled) return`.
start_ignoresCancelled(s, ok, cancelled) ==
  IF ~ok THEN s
  ELSE [rowRef |-> 0, progressRef |-> 0, lastTickRef |-> -1, animationFrameRef |-> TRUE,
        triggered |-> <<0>>]

\* start() of the playback effect, after its await: ok is whether
\* ensureAudioContext resolved, cancelled whether the cleanup of the effect has run.
start(s, ok, cancelled) ==
  IF ~ok \/ cancelled THEN s
  ELSE [rowRef |-> 0, progressRef |-> 0, lastTickRef |-> -1, animationFrameRef |-> TRUE,
        triggered |-> <<0>>]

CommitPlay(s) ==
  /\ rowRef' = s.rowRef
  /\ progressRef' = s.progressRef
  /\ lastTickRef' = s.lastTickRef
  /\ animationFrameRef' = s.animationFrameRef
  /\ triggeredRows' = s.triggered

\* handleTogglePlayback and the playback effect that the new isPlaying runs: the
\* cleanup of the old effect cancels its start() and its frame; when isPlaying
\* becomes true the new effect calls start(), which waits for the audio context.
HandleTogglePlayback ==
  /\ isPlaying' = ~isPlaying
  /\ startPending' = ~isPlaying
  /\ cancelledStarts' = IF startPending THEN cancelledStarts + 1 ELSE cancelledStarts
  /\ cancelledStarts' <= MaxCancelledStarts
  /\ CommitPlay([PlayRefs EXCEPT !.animationFrameRef = FALSE])
  /\ UNCHANGED <<pipelineVars, mapperVars, particleVars, shotVars, lateVars, pressVars, playTime,
                 lastStart>>

\* The await of the start() of the effect in force is over.
Start(ok) ==
  /\ startPending
  /\ startPending' = FALSE
  /\ lastStart' = IF ok THEN "ran" ELSE "failed"
  /\ CommitPlay(start(PlayRefs, ok, FALSE))
  /\ UNCHANGED <<pipelineVars, mapperVars, particleVars, shotVars, lateVars, pressVars, isPlaying,
                 playTime, cancelledStarts>>

\* The await of a start() is over whose effect was cleaned up in the meantime.
CancelledStart(ok) ==
  /\ cancelledStarts > 0
  /\ cancelledStarts' = cancelledStarts - 1
  /\ lastStart' = IF ok THEN "cancelled" ELSE "failed"
  /\ CommitPlay(start(PlayRefs, ok, TRUE))
  /\ UNCHANGED <<pipelineVars, mapperVars, particleVars, shotVars, lateVars, pressVars, isPlaying,
                 playTime, startPending>>

\* The animation frame that was requested runs, d ms after the last one.
StepAnimation(d) ==
  /\ animationFrameRef
  /\ playTime + d <= MaxPlayTime
  /\ playTime' = playTime + d
  /\ CommitPlay(stepAnimation(PlayRefs, isPlaying, playTime + d))
  /\ UNCHANGED <<pipelineVars, mapperVars, particleVars, shotVars, lateVars, pressVars, isPlaying,
                 startPending, cancelledStarts, lastStart>>

PlaybackInit ==
  /\ PipelineIdle
  /\ MapperIdle
  /\ ParticlesIdle
  /\ OneShotsIdle
  /\ SequencerIdle
  /\ LateIdle

PlaybackNext ==
  \/ HandleTogglePlayback
  \/ \E ok \in BOOLEAN : Start(ok)
  \/ \E ok \in BOOLEAN : CancelledStart(ok)
  \/ \E d \in FrameSteps : StepAnimation(d)

PlaybackSpec == PlaybackInit /\ [][PlaybackNext]_vars

(* ============================ the Tone.js App =========================== *)
\* part_001 and src/App.tsx: two versions of the App that plays Tone.js drums on
\* a tap and a Tone.js synth on a drag. toneApp says which one is mounted. The
\* mouse handlers do to the touch id mouseId what the touch handlers do to a
\* touch identifier, so a mouse gesture is one more touch id here. The context
\* stays running once the audio is initialized.

ToneWidth == 100
ToneHeight == 100
\* Where touches start and move to; a touch starts inside the container.
TonePositions == {<<50, 50>>, <<50, 95>>, <<50, 100>>}
MaxSynths == 2
MaxInitRuns == 2
MaxEndWaits == 1

DRAG_THRESHOLD == 10
DRUM_COUNT == 4
NOTE_COUNT == 10

ToneIdSeq == <<1, 2>>

ToneRefs ==
  [audioInitialized |-> audioInitialized, audioInitPromise |-> audioInitPromise,
   initRuns |-> initRuns, drumsRef |-> drumsRef, drumSets |-> drumSets,
   toneTouches |-> toneTouches, synthsRef |-> synthsRef, toneSynths |-> toneSynths,
   endWaits |-> endWaits, lastDrum |-> lastDrum]

CommitTone(s) ==
  /\ audioInitialized' = s.audioInitialized
  /\ audioInitPromise' = s.audioInitPromise
  /\ initRuns' = s.initRuns
  /\ drumsRef' = s.drumsRef
  /\ drumSets' = s.drumSets
  /\ toneTouches' = s.toneTouches
  /\ synthsRef' = s.synthsRef
  /\ toneSynths' = s.toneSynths
  /\ endWaits' = s.endWaits
  /\ lastDrum' = s.lastDrum

\* The index of the note in PENTATONIC_NOTES.
getNote(x, containerWidth) ==
  LET noteIndex == (x * NOTE_COUNT) \div containerWidth
  IN  IF noteIndex < NOTE_COUNT - 1 THEN noteIndex ELSE NOTE_COUNT - 1

getDrumIndex(s, y, containerHeight) == (y * s.drumsRef) \div containerHeight

\* initializeAudio up to its first await. part_001 shares the promise of the
\* routine in flight; src/App.tsx starts a routine in every call that finds
\* audioInitialized false.
initializeAudio(s, app) ==
  IF s.audioInitialized THEN s
  ELSE IF app = "App" THEN [s EXCEPT !.initRuns = Append(@, "start")]
  ELSE IF s.audioInitPromise = "null"
    THEN [s EXCEPT !.audioInitPromise = "pending", !.initRuns = Append(@, "prestart")]
    ELSE s

\* playDrum, after its await of initializeAudio in part_001.
playDrum(s, app, y, containerHeight) ==
  IF app = "part_001" /\ (~s.audioInitialized \/ s.drumsRef = 0) THEN s
  ELSE LET drumIndex == getDrumIndex(s, y, containerHeight)
       IN  [s EXCEPT !.lastDrum = [y |-> y, index |-> drumIndex, drums |-> s.drumsRef,
                                   played |-> drumIndex >= 0 /\ drumIndex < s.drumsRef]]

playSynth(s, app, touch, x, y) ==
  IF app = "part_001" /\ ~s.audioInitialized THEN s
  ELSE LET note == getNote(x, ToneWidth)
       IN  IF s.synthsRef[touch.id] = 0
             THEN [s EXCEPT !.toneSynths = Append(@, [touch |-> touch.id, note |-> note,
                                                      disposed |-> FALSE]),
                            !.synthsRef[touch.id] = Len(s.toneSynths) + 1]
             ELSE [s EXCEPT !.toneSynths[s.synthsRef[touch.id]].note = note]

newTouch(id, x, y) ==
  [id |-> id, x |-> x, y |-> y, startX |-> x, startY |-> y, isDragging |-> FALSE]

\* handleTouchStart: every touch of e.touches, the new one and those already
\* down, gets a new Touch at its position.
handleTouchStart(s, app, id, x, y) ==
  LET s1 == initializeAudio(s, app)
  IN  [s1 EXCEPT !.toneTouches =
         [j \in ToneIds |->
            IF j = id THEN newTouch(id, x, y)
            ELSE IF s.toneTouches[j] # NoTouch
              THEN newTouch(j, s.toneTouches[j].x, s.toneTouches[j].y)
              ELSE NoTouch]]

\* The body of touches.forEach in handleTouchMove, for one touch of e.touches.
moveTouch(s, app, id, x, y) ==
  LET existingTouch == s.toneTouches[id]
  IN  IF existingTouch = NoTouch THEN s
      ELSE LET dx == x - existingTouch.startX
               dy == y - existingTouch.startY
               isDragging == dx * dx + dy * dy > DRAG_THRESHOLD * DRAG_THRESHOLD
               s1 == IF isDragging THEN playSynth(s, app, existingTouch, x, y) ELSE s
           IN  [s1 EXCEPT !.toneTouches[id] =
                  [existingTouch EXCEPT !.x = x, !.y = y, !.isDragging = isDragging]]

RECURSIVE handleTouchMove(_, _, _, _, _, _)
\* handleTouchMove: e.touches from the k-th on; the touch `id` is at <<x, y>>,
\* the others are where they were.
handleTouchMove(s, app, k, id, x, y) ==
  IF k > Len(ToneIdSeq) THEN s
  ELSE LET j == ToneIdSeq[k]
           s1 == IF j = id THEN moveTouch(s, app, j, x, y)
                 ELSE IF s.toneTouches[j] = NoTouch THEN s
                 ELSE moveTouch(s, app, j, s.toneTouches[j].x, s.toneTouches[j].y)
       IN  handleTouchMove(s1, app, k + 1, id, x, y)

\* handleTouchEnd for a touch it found in touches: a tap plays a drum, a drag
\* releases and disposes the synth of the touch id.
endTouch(s, app, existingTouch) ==
  IF ~existingTouch.isDragging THEN playDrum(s, app, existingTouch.y, ToneHeight)
  ELSE LET entry == s.synthsRef[existingTouch.id]
       IN  IF entry = 0 THEN s
           ELSE [s EXCEPT !.toneSynths[entry].disposed = TRUE,
                          !.synthsRef[existingTouch.id] = 0]

\* handleTouchEnd: part_001 awaits initializeAudio() before it handles the touch.
handleTouchEnd(s, app, id) ==
  LET existingTouch == s.toneTouches[id]
      s1 == [s EXCEPT !.toneTouches[id] = NoTouch]
  IN  IF existingTouch = NoTouch THEN s1
      ELSE IF app = "App" THEN endTouch(s1, app, existingTouch)
      ELSE IF s.audioInitialized THEN endTouch(s1, app, existingTouch)
      ELSE [initializeAudio(s1, app) EXCEPT
              !.endWaits = Append(@, [id |-> id, y |-> existingTouch.y,
                                      isDragging |-> existingTouch.isDragging])]

RECURSIVE resumeEnds(_, _, _)
\* The handleTouchEnd calls that awaited the initialization go on, oldest first.
resumeEnds(s, app, waits) ==
  IF waits = <<>> THEN s
  ELSE resumeEnds(endTouch(s, app, Head(waits)), app, Tail(waits))

dropRun(runs, i) == [k \in 1..(Len(runs) - 1) |-> IF k < i THEN runs[k] ELSE runs[k + 1]]

\* The i-th initialization routine goes on after its await, which was fulfilled
\* (ok) or rejected. part_001: ensureAudioContextRunning (its error is caught),
\* Tone.start(), ensureAudioContextRunning; src/App.tsx: Tone.start().
initStep(s, app, i, ok) ==
  LET stage == s.initRuns[i]
      done == [s EXCEPT !.initRuns = dropRun(@, i)]
  IN  IF app = "App"
        THEN IF ok THEN [done EXCEPT !.drumsRef = DRUM_COUNT, !.drumSets = @ + 1,
                                     !.audioInitialized = TRUE]
                   ELSE done
      ELSE IF stage = "prestart" THEN [s EXCEPT !.initRuns[i] = "start"]
      ELSE IF ~ok
        THEN [done EXCEPT !.audioInitPromise = "null", !.audioInitialized = FALSE,
                          !.endWaits = <<>>]
      ELSE IF stage = "start" THEN [s EXCEPT !.initRuns[i] = "stabilize"]
      ELSE resumeEnds([done EXCEPT !.drumsRef = DRUM_COUNT, !.drumSets = @ + 1,
                                   !.audioInitialized = TRUE,
                                   !.audioInitPromise = "fulfilled",
                                   !.endWaits = <<>>],
                      app, s.endWaits)

ToneRest ==
  UNCHANGED <<pipelineVars, mapperVars, particleVars, shotVars, sequencerVars, ensureVars,
              loopVars, toneApp>>

TouchStart(id, pos) ==
  /\ toneTouches[id] = NoTouch
  /\ pos[1] < ToneWidth /\ pos[2] < ToneHeight
  /\ Len(initializeAudio(ToneRefs, toneApp).initRuns) <= MaxInitRuns
  /\ CommitTone(handleTouchStart(ToneRefs, toneApp, id, pos[1], pos[2]))
  /\ ToneRest

TouchMove(id, pos) ==
  /\ toneTouches[id] # NoTouch
  /\ <<toneTouches[id].x, toneTouches[id].y>> # pos
  /\ LET s == handleTouchMove(ToneRefs, toneApp, 1, id, pos[1], pos[2])
     IN  Len(s.toneSynths) <= MaxSynths /\ CommitTone(s)
  /\ ToneRest

TouchEnd(id) ==
  /\ toneTouches[id] # NoTouch
  /\ LET s == handleTouchEnd(ToneRefs, toneApp, id)
     IN  Len(s.endWaits) <= MaxEndWaits /\ CommitTone(s)
  /\ ToneRest

InitStep(i, ok) ==
  /\ i \in DOMAIN initRuns
  /\ CommitTone(initStep(ToneRefs, toneApp, i, ok))
  /\ ToneRest

ToneInit ==
  /\ PipelineIdle
  /\ MapperIdle
  /\ ParticlesIdle
  /\ OneShotsIdle
  /\ SequencerIdle
  /\ toneApp \in {"part_001", "App"}
  /\ audioInitialized = FALSE
  /\ audioInitPromise = "null"
  /\ initRuns = <<>>
  /\ drumsRef = 0
  /\ drumSets = 0
  /\ toneTouches = [id \in ToneIds |-> NoTouch]
  /\ synthsRef = [id \in ToneIds |-> 0]
  /\ toneSynths = <<>>
  /\ endWaits = <<>>
  /\ lastDrum = NoDrum
  /\ EnsureIdle
  /\ LoopIdle

ToneNext ==
  \/ \E id \in ToneIds, pos \in TonePositions : TouchStart(id, pos)
  \/ \E id \in ToneIds, pos \in TonePositions : TouchMove(id, pos)
  \/ \E id \in ToneIds : TouchEnd(id)
  \/ \E i \in 1..MaxInitRuns, ok \in BOOLEAN : InitStep(i, ok)

ToneSpec == ToneInit /\ [][ToneNext]_vars

(* ================= ensureAudioContextRunning (part_001) ================== *)
\* The clock counts seconds; the calls are made with a timeout of 1 s or 2 s
\* where the App passes 4 s and 6 s.
MaxEnsureTime == 4
EnsureTimeouts == {1, 2}
ContextStates == {"suspended", "running", "closed"}

EnsureRefs ==
  [state |-> contextState, pc |-> ensurePc, settled |-> ensureSettled,
   listener |-> ensureListener, timerId |-> ensureTimerId, promise |-> ensurePromise,
   settlements |-> ensureSettlements]

CommitEnsure(s) ==
  /\ contextState' = s.state
  /\ ensurePc' = s.pc
  /\ ensureSettled' = s.settled
  /\ ensureListener' = s.listener
  /\ ensureTimerId' = s.timerId
  /\ ensurePromise' = s.promise
  /\ ensureSettlements' = s.settlements

\* The async function returns (resolve) or the promise it awaits rejects.
settle(s, how) ==
  [s EXCEPT !.promise = IF @ = "pending" THEN how ELSE @, !.settlements = @ + 1,
            !.pc = "returned"]

\* cleanup of the promise executor.
cleanup(s) ==
  [s EXCEPT !.settled = TRUE, !.listener = FALSE, !.timerId = NoEnsureTimer]

\* handleStateChange, the statechange listener.
handleStateChange(s) ==
  IF s.state = "running" /\ ~s.settled THEN settle(cleanup(s), "resolved") ELSE s

\* The callback of window.setTimeout(..., timeoutMs).
timerCallback(s) ==
  IF ~s.settled THEN settle(cleanup(s), "rejected") ELSE s

\* ensureAudioContextRunning up to its first await: a context that is not running
\* is resumed, and the function waits for context.resume() to settle.
ensureAudioContextRunning(s) ==
  IF s.state # "running" THEN [s EXCEPT !.pc = "resume"] ELSE settle(s, "resolved")

\* ensureAudioContextRunning after `await attemptResume()`: return when the
\* context runs, else the promise with the listener and the timer.
afterResume(s, time, timeoutMs) ==
  IF s.state = "running" THEN settle(s, "resolved")
  ELSE [s EXCEPT !.pc = "waiting", !.settled = FALSE, !.listener = TRUE,
                 !.timerId = time + timeoutMs]

EnsureRest ==
  UNCHANGED <<pipelineVars, mapperVars, particleVars, shotVars, sequencerVars, toneVars,
              loopVars>>

EnsureCall(timeoutMs) ==
  /\ ensurePc = "idle"
  /\ ensureTimeoutMs' = timeoutMs
  /\ ensureCalledAt' = ensureNow
  /\ CommitEnsure(ensureAudioContextRunning(EnsureRefs))
  /\ UNCHANGED ensureNow
  /\ EnsureRest

\* context.resume() of the awaited attemptResume settles: fulfilled, the context
\* runs; rejected (a closed context, a refusal of the browser), the error is caught.
ResumeSettles(fulfilled) ==
  /\ ensurePc = "resume"
  /\ fulfilled => contextState # "closed"
  /\ CommitEnsure(afterResume([EnsureRefs EXCEPT !.state = IF fulfilled THEN "running" ELSE @],
                              ensureNow, ensureTimeoutMs))
  /\ UNCHANGED <<ensureTimeoutMs, ensureCalledAt, ensureNow>>
  /\ EnsureRest

\* The context changes its state and dispatches statechange to its listeners.
StateChange(state) ==
  /\ contextState \notin {"closed", state}
  /\ CommitEnsure(IF ensureListener THEN handleStateChange([EnsureRefs EXCEPT !.state = state])
                  ELSE [EnsureRefs EXCEPT !.state = state])
  /\ UNCHANGED <<ensureTimeoutMs, ensureCalledAt, ensureNow>>
  /\ EnsureRest

\* The timer of the call is due.
EnsureTimeout ==
  /\ ensureTimerId # NoEnsureTimer
  /\ ensureNow >= ensureTimerId
  /\ CommitEnsure(timerCallback([EnsureRefs EXCEPT !.timerId = NoEnsureTimer]))
  /\ UNCHANGED <<ensureTimeoutMs, ensureCalledAt, ensureNow>>
  /\ EnsureRest

\* A second passes; a timer that is due runs before the next second does.
EnsureTick ==
  /\ ensureNow < MaxEnsureTime
  /\ ensureTimerId = NoEnsureTimer \/ ensureNow < ensureTimerId
  /\ ensureNow' = ensureNow + 1
  /\ UNCHANGED <<contextState, ensurePc, ensureTimeoutMs, ensureSettled, ensureListener,
                 ensureTimerId, ensurePromise, ensureSettlements, ensureCalledAt>>
  /\ EnsureRest

EnsureInit ==
  /\ PipelineIdle
  /\ MapperIdle
  /\ ParticlesIdle
  /\ OneShotsIdle
  /\ SequencerIdle
  /\ ToneIdle
  /\ contextState \in ContextStates
  /\ ensurePc = "idle"
  /\ ensureTimeoutMs = 0
  /\ ensureSettled = FALSE
  /\ ensureListener = FALSE
  /\ ensureTimerId = NoEnsureTimer
  /\ ensurePromise = "pending"
  /\ ensureSettlements = 0
  /\ ensureCalledAt = 0
  /\ ensureNow = 0
  /\ LoopIdle

EnsureNext ==
  \/ \E timeoutMs \in EnsureTimeouts : EnsureCall(timeoutMs)
  \/ \E fulfilled \in BOOLEAN : ResumeSettles(fulfilled)
  \/ \E state \in ContextStates : StateChange(state)
  \/ EnsureTimeout
  \/ EnsureTick

EnsureSpec == EnsureInit /\ [][EnsureNext]_vars


(* ============ RainbowField and AuroraField: start and destroy ============ *)
\* The handles requestAnimationFrame hands out in one run.
MaxRafIds == 3
LoopFields == {"RainbowField", "AuroraField"}

LoopRefs ==
  [rafId |-> rafId, destroyed |-> destroyed, requests |-> frameRequests, next |-> nextRafId,
   draws |-> loopDraws, emitters |-> emitters, pulses |-> pulses, particles |-> particles,
   PARTICLE_ID |-> PARTICLE_ID, lastTime |-> lastTime]

CommitLoop(f) ==
  /\ rafId' = f.rafId
  /\ destroyed' = f.destroyed
  /\ frameRequests' = f.requests
  /\ nextRafId' = f.next
  /\ loopDraws' = f.draws
  /\ emitters' = f.emitters
  /\ pulses' = f.pulses
  /\ particles' = f.particles
  /\ PARTICLE_ID' = f.PARTICLE_ID
  /\ lastTime' = f.lastTime

\* this.rafId = window.requestAnimationFrame(loop)
requestLoop(f) ==
  [f EXCEPT !.rafId = f.next, !.requests = @ \cup {f.next}, !.next = @ + 1]

\* start()
fieldStart(f) == IF f.rafId # 0 THEN f ELSE requestLoop(f)

\* destroy(): RainbowField clears emitters and pulses, AuroraField particles.
destroy(f, field) ==
  LET cancelled == [f EXCEPT !.destroyed = TRUE, !.requests = @ \ {f.rafId}, !.rafId = 0]
  IN  IF field = "RainbowField"
        THEN [cancelled EXCEPT !.emitters = [id \in PointerIds |-> NoEmitter], !.pulses = <<>>]
        ELSE [cancelled EXCEPT !.particles = <<>>]

\* The body of loop: RainbowField draws at time t; AuroraField updates by the
\* time since the last frame, then draws.
drawFrame(f, field, t, r) ==
  IF field = "RainbowField"
    THEN [f EXCEPT !.emitters = drawEmitters(@, t), !.pulses = drawPulses(@, t),
                   !.draws = @ + 1]
    ELSE LET time == (IF f.lastTime = -1 THEN 0 ELSE f.lastTime) + FrameGapMs
         IN  [f EXCEPT !.particles = update(@, frameDelta("aurora", f.lastTime, time), r),
                       !.lastTime = time, !.draws = @ + 1]

\* loop without `if (this.destroyed) return`.
loop_ignoresDestroyed(f, field, t, r) == requestLoop(drawFrame(f, field, t, r))

\* loop, the animation frame callback of start().
loop(f, field, t, r) ==
  IF f.destroyed THEN f ELSE requestLoop(drawFrame(f, field, t, r))

\* AuroraField.spawnBurst with its return for a destroyed field.
spawnBurstOnField(f, x, y, v, r) ==
  IF f.destroyed THEN f
  ELSE LET spawned == spawnBurst([particles |-> f.particles, PARTICLE_ID |-> f.PARTICLE_ID],
                                 x, y, v, r)
       IN  [f EXCEPT !.particles = spawned.particles, !.PARTICLE_ID = spawned.PARTICLE_ID]

LoopRest ==
  UNCHANGED <<appVars, fieldNow, frame, mapperVars, particleHost, random, shotVars,
              sequencerVars, toneVars, ensureVars, loopField>>

LoopStart ==
  /\ rafId # 0 \/ nextRafId <= MaxRafIds
  /\ CommitLoop(fieldStart(LoopRefs))
  /\ UNCHANGED bursts
  /\ LoopRest

LoopDestroy ==
  /\ CommitLoop(destroy(LoopRefs, loopField))
  /\ UNCHANGED bursts
  /\ LoopRest

\* The browser runs the animation frame callback with handle h.
LoopFrame(h) ==
  /\ h \in frameRequests
  /\ destroyed \/ nextRafId <= MaxRafIds
  /\ CommitLoop(loop([LoopRefs EXCEPT !.requests = @ \ {h}], loopField, fieldNow, random))
  /\ UNCHANGED bursts
  /\ LoopRest

\* RainbowField.setEmitter and pulse: they do not look at this.destroyed.
LoopSetEmitter(id, frequency) ==
  /\ loopField = "RainbowField"
  /\ CommitLoop([LoopRefs EXCEPT !.emitters = setEmitter(Refs, id, frequency, fieldNow).emitters])
  /\ UNCHANGED bursts
  /\ LoopRest

LoopPulse(frequency, duration) ==
  /\ loopField = "RainbowField"
  /\ Len(pulses) < MaxPulses
  /\ CommitLoop([LoopRefs EXCEPT !.pulses = pulse(@, frequency, duration, fieldNow)])
  /\ UNCHANGED bursts
  /\ LoopRest

LoopSpawnBurst(v) ==
  /\ loopField = "AuroraField"
  /\ bursts < MaxBursts
  /\ bursts' = bursts + 1
  /\ CommitLoop(spawnBurstOnField(LoopRefs, BurstX, BurstY, v, random))
  /\ LoopRest

LoopInit ==
  /\ PipelineIdle
  /\ MapperIdle
  /\ ParticlesIdle
  /\ OneShotsIdle
  /\ SequencerIdle
  /\ ToneIdle
  /\ EnsureIdle
  /\ loopField \in LoopFields
  /\ rafId = 0
  /\ destroyed = FALSE
  /\ frameRequests = {}
  /\ nextRafId = 1
  /\ loopDraws = 0

LoopNext ==
  \/ LoopStart
  \/ LoopDestroy
  \/ \E h \in 1..MaxRafIds : LoopFrame(h)
  \/ \E id \in PointerIds, frequency \in FieldFrequencies : LoopSetEmitter(id, frequency)
  \/ \E frequency \in FieldFrequencies, duration \in PulseDurations : LoopPulse(frequency, duration)
  \/ \E v \in BurstVariants : LoopSpawnBurst(v)

LoopSpec == LoopInit /\ [][LoopNext]_vars


(* =============================== claims ================================ *)

VoicesOf(id, status) ==
  {v \in DOMAIN audioGraph : audioGraph[v].pointerId = id /\ audioGraph[v].status = status}

\* C1: for every pointer id at most one Voice created for it is sounding
\* (created and not yet passed to stopVoice) at any time.
C1_AtMostOneSoundingVoice ==
  \A id \in PointerIds : Cardinality(VoicesOf(id, "sounding")) <= 1

\* C2: a pointer-down whose pointer was released or cancelled while it waited
\* for ensureAudioContext creates no Voice; and once every pointer is released
\* and no pointer-down is waiting, no Voice is sounding.
C2_ReleasedDownCreatesNoVoice ==
  /\ \A v \in DOMAIN audioGraph : ~audioGraph[v].stale
  /\ (pendingDowns = <<>> /\ \A id \in PointerIds : gesture[id].phase # "down")
       => \A id \in PointerIds : VoicesOf(id, "sounding") = {}

\* C3: every Voice passed to stopVoice is torn down when its release timer
\* elapses: until its nodes are disconnected, the disconnect stays scheduled.
C3_ReleasedVoiceIsTornDown ==
  \A v \in DOMAIN audioGraph :
    audioGraph[v].status = "released" => \E tm \in timeouts : tm.timer = v

\* C4: stopVoice at time t orders the release: the gain ramp ends at t + R,
\* the oscillator stops after it, and the disconnect runs after the oscillator
\* stop (grid: t+R, t+R+50, t+R+250 ms with R = max(120, instrument.release);
\* lead/pad: t+120, t+150, t+250 ms); no disconnect runs before the ramp end.
C4_ReleaseOrder ==
  [][\A v \in DOMAIN audioGraph :
       /\ (audioGraph[v].status = "sounding" /\ audioGraph'[v].status = "released") =>
            LET R == IF variant = "lead" THEN 120
                     ELSE Max(120, InstrumentRelease(audioGraph[v].instrument))
                stop == IF variant = "lead" THEN now + 150 ELSE now + R + 50
                fire == IF variant = "lead" THEN now + 250 ELSE now + R + 250
            IN  /\ audioGraph'[v].rampEnd = now + R
                /\ audioGraph'[v].oscStop = stop
                /\ \E tm \in timeouts' : tm.timer = v /\ tm.fireAt = fire
                /\ now + R < stop /\ stop < fire
       /\ (audioGraph[v].status = "released" /\ audioGraph'[v].status = "disconnected") =>
            /\ audioGraph[v].rampEnd < audioGraph[v].oscStop
            /\ audioGraph[v].oscStop < now
    ]_vars

C4_Witness ==
  /\ variant = "grid"
  /\ \E v \in DOMAIN audioGraph : audioGraph[v].status = "disconnected"

\* The pitch the mapper gives the position where a gesture began.
StartPitch(g) ==
  IF variant = "lead"
    THEN getFrequencyForPosition(g.startX, WIDTH)
    ELSE CellFrequency(computeCellMix(g.startX, g.startY, WIDTH, HEIGHT).primaryCell)

\* C5: a gesture that ends with pointer-up less than 220 ms after its
\* pointer-down, having travelled less than 32 px and fired no special
\* gesture, triggers exactly one one-shot and leaves no Voice of the pointer
\* sounding, also when the pointer-up arrives during the audio resume.
C5_TapTriggersOneShot ==
  [][\A id \in PointerIds :
       ( /\ hasConstructor
         /\ gesture[id].phase = "down"
         /\ gesture'[id].phase = "ended"
         /\ gesture'[id].by = "up"
         /\ now - gesture[id].downAt < 220
         /\ gesture[id].dist < 32
         /\ oneShots[id].shimmer = 0 )
       => /\ oneShots'[id].chime = 1
          /\ oneShots'[id].shimmer = 0
          /\ \A v \in DOMAIN audioGraph' :
               audioGraph'[v].pointerId = id => audioGraph'[v].status # "sounding"
    ]_vars

\* C6: the pitch of the one-shot a tap triggers is the pitch mapped from the
\* position of the gesture's pointer-down, whatever moves came in between.
C6_TapPitchIsStartPitch ==
  [][\A id \in PointerIds :
       (gesture[id].phase = "down" /\ oneShots'[id].chime > oneShots[id].chime)
       => oneShots'[id].pitch = StartPitch(gesture[id])
    ]_vars

\* C7: within one gesture the shimmer arpeggio is triggered at most once,
\* also when the diagonal condition holds on several pointer-move events.
C7_ShimmerAtMostOnce ==
  \A id \in PointerIds : oneShots[id].shimmer <= 1

C7_Witness ==
  \E id \in PointerIds :
    /\ gesture[id].phase = "down"
    /\ gesture[id].diagonals >= 2
    /\ oneShots[id].shimmer = 1

C9_ReleaseIdempotent ==
  [][\A id \in PointerIds :
       ( /\ gesture[id].phase = "ended"
         /\ \/ handlePointerCancelLP(id) \/ handlePointerCancelGrid(id)
            \/ \E p \in Positions : handlePointerUpLP(id, p[1], p[2])
            \/ \E p \in Positions : handlePointerUpGrid(id, p[1], p[2]) )
       => UNCHANGED <<voicesRef, audioGraph, releaseTimersRef, timeouts,
                      activePointersRef, pointerMetaRef, emitters, oneShots>>
    ]_vars

C9_Witness ==
  \E id \in PointerIds :
    /\ gesture[id].phase = "ended"
    /\ gesture[id].repeated
    /\ gesture[id].hadVoice

\* C10: within one gesture the instrument lock is irreversible: a Voice that
\* became pad stays pad, and once the gesture is locked the Voice's
\* instrument no longer changes (a gesture locked to lead never becomes pad).
C10_LockIrreversible ==
  [][\A id \in PointerIds :
       (variant = "lead" /\ voicesRef[id] # 0 /\ voicesRef'[id] = voicesRef[id]) =>
         LET v == voicesRef[id]
         IN  /\ audioGraph[v].instrument = "pad" => audioGraph'[v].instrument = "pad"
             /\ pointerMetaRef[id].instrumentLocked =>
                  /\ pointerMetaRef'[id].instrumentLocked
                  /\ audioGraph'[v].instrument = audioGraph[v].instrument
    ]_vars

C10_Witness ==
  \E id \in PointerIds :
    /\ variant = "lead"
    /\ voicesRef[id] # 0
    /\ audioGraph[voicesRef[id]].instrument = "lead"
    /\ pointerMetaRef[id].instrumentLocked
    /\ Abs(pointerMetaRef[id].lastY - pointerMetaRef[id].startY) > 50
    /\ 100 * Abs(pointerMetaRef[id].lastY - pointerMetaRef[id].startY)
         > 135 * Abs(pointerMetaRef[id].lastX - pointerMetaRef[id].startX)

\* C11: once the shimmer path has fired in a gesture, the gesture is resolved
\* for good: no Voice of the pointer is sounding, no later step of the gesture
\* puts a Voice in the voice map or creates one, the emitter stays inactive,
\* and the gesture - its pointer-up included - triggers no tap chime.
C11_ShimmerResolvesGesture ==
  [][\A id \in PointerIds :
       (gesture[id].phase = "down" /\ oneShots[id].shimmer >= 1) =>
         /\ VoicesOf(id, "sounding") = {}
         /\ voicesRef[id] = 0
         /\ voicesRef'[id] = 0
         /\ Len(audioGraph') = Len(audioGraph)
         /\ ~emitters'[id].active
         /\ oneShots'[id].chime = 0]_vars

\* C15: whenever a pointer has a Voice in the voice map and an active emitter,
\* the Voice's target frequency is the emitter's frequency.
C15_VoiceAndEmitterAgree ==
  \A id \in PointerIds :
    (voicesRef[id] # 0 /\ emitters[id] # NoEmitter /\ emitters[id].active)
      => audioGraph[voicesRef[id]].frequency = emitters[id].frequency

\* C16: a pointer has its PointerMeta exactly from the handling of its
\* pointer-down to the handling of its pointer-up or pointer-cancel, the wait
\* for the audio resume included.
C16_MetaSpansGesture ==
  \A id \in PointerIds : (gesture[id].phase = "down") <=> (pointerMetaRef[id] # NoMeta)

\* The step in which ensureAudioContext rejects for a pointer-down of id: the
\* constructor is missing, or context.resume() rejects.
Rejected(id) ==
  \/ ResumeReject /\ Head(pendingDowns).pointerId = id
  \/ /\ ~hasConstructor
     /\ \E p \in Positions :
          handlePointerDownLP(id, p[1], p[2]) \/ handlePointerDownGrid(id, p[1], p[2])

\* C17: when ensureAudioContext rejects, handlePointerDown's catch branch
\* creates no Voice, takes the pointer out of the active set and leaves it
\* without PointerMeta and without an active emitter.
C17_RejectedDownLeavesNothing ==
  [][\A id \in PointerIds :
       Rejected(id) =>
         /\ audioGraph' = audioGraph
         /\ voicesRef'[id] = 0
         /\ id \notin activePointersRef'
         /\ pointerMetaRef'[id] = NoMeta
         /\ (emitters'[id] # NoEmitter => ~emitters'[id].active)]_vars

\* A pointer of the grid App is still down after its pointer-down was
\* rejected: it is out of the active set and its emitter fades.
C17_Witness ==
  \E id \in PointerIds :
    /\ variant = "grid"
    /\ gesture[id].phase = "down"
    /\ id \notin activePointersRef
    /\ pendingDowns = <<>>
    /\ pointerMetaRef[id] = NoMeta
    /\ emitters[id] # NoEmitter
    /\ ~emitters[id].active

\* C18: no sound is scheduled on a suspended device: a Voice is created, and
\* a chime, tap sound or shimmer is triggered, only with the context running.
C18_NoSoundWhileSuspended ==
  [][/\ Len(audioGraph') > Len(audioGraph) => audioContextRef' = "running"
     /\ \A id \in PointerIds :
          (\/ oneShots'[id].chime > oneShots[id].chime
           \/ oneShots'[id].shimmer > oneShots[id].shimmer)
            => audioContextRef = "running"]_vars

\* A pointer-move, pointer-up or pointer-cancel event of pointer id.
Stray(id) ==
  \/ \E p \in Positions : \/ handlePointerMoveLP(id, p[1], p[2])
                          \/ handlePointerMoveGrid(id, p[1], p[2])
                          \/ handlePointerUpLP(id, p[1], p[2])
                          \/ handlePointerUpGrid(id, p[1], p[2])
  \/ handlePointerCancelLP(id)
  \/ handlePointerCancelGrid(id)

\* C19: a move, up or cancel event for a pointer that never went down or was
\* already released, and so has no PointerMeta, changes none of the voice map,
\* the Voices, the release timers, the PointerMeta map, the active set and the
\* emitters, and triggers no one-shot (no sound, no pulse).
C19_StrayEventIsIgnored ==
  [][\A id \in PointerIds :
       (gesture[id].phase \in {"none", "ended"} /\ pointerMetaRef[id] = NoMeta /\ Stray(id))
          => UNCHANGED <<voicesRef, audioGraph, releaseTimersRef, timeouts, pointerMetaRef,
                         activePointersRef, emitters, oneShots>>]_vars

\* A pointer-up or pointer-cancel was handled for a pointer that never went
\* down: no pointer-down ever reached ensureAudioContext.
C19_Witness ==
  \E id \in PointerIds :
    /\ hasConstructor
    /\ audioContextRef = "null"
    /\ gesture[id].phase = "ended"

\* The id of the grid cell that contains (x, y): computeCellMix's primaryCell.
CellAt(x, y) == computeCellMix(x, y, WIDTH, HEIGHT).primaryCell

\* C20: after a grid pointer-move handled with a Voice in the voice map, the
\* Voice has the instrument and the id of the cell that contains the pointer,
\* and a move that stays in the cell of the previous position leaves the
\* Voice's instrument as it was.
C20_InstrumentFollowsCell ==
  [][\A id \in PointerIds : \A p \in Positions :
       (voicesRef[id] # 0 /\ handlePointerMoveGrid(id, p[1], p[2])) =>
          LET before == audioGraph[voicesRef[id]]
              after == audioGraph'[voicesRef[id]]
          IN  /\ after.instrument = CellAt(p[1], p[2])
              /\ after.currentCellIndex = CellAt(p[1], p[2])
              /\ (/\ gesture[id].phase = "down"
                  /\ CellAt(gesture[id].lastX, gesture[id].lastY) = CellAt(p[1], p[2]))
                   => after.instrument = before.instrument]_vars

\* C12: on every frame an active emitter has intensity 0.85; a released one
\* has 0.85 * (1 - (now - releaseAt) / releaseDuration), which in units of
\* 1 / IntensityUnit is 17 for each 0.1 ms that is left, never more than on the
\* frame before unless it was reactivated in between (further releaseEmitter
\* calls change nothing); and a frame at or after releaseAt + releaseDuration
\* computes intensity 0 and removes the emitter.
C12_FadeNeverIncreases ==
  [][Draw =>
       \A id \in PointerIds :
         emitters[id] # NoEmitter =>
           LET computed == frame'.emitters[id]
               since == fieldNow - emitters[id].releaseAt
           IN  /\ emitters[id].active => 100 * computed = 85 * IntensityUnit
               /\ ~emitters[id].active =>
                    /\ since < 10 * releaseDuration =>
                         computed = 17 * (10 * releaseDuration - since)
                    /\ (frame.emitters[id] >= 0 /\ id \notin frame.reactivated)
                         => computed <= frame.emitters[id]
                    /\ since >= 10 * releaseDuration
                         => (computed = 0 /\ emitters'[id] = NoEmitter)]_vars

\* A frame has found a released emitter faded and has removed it, after an
\* earlier frame had drawn it.
C12_Witness ==
  \E id \in PointerIds :
    /\ emitters[id] = NoEmitter
    /\ frame.emitters[id] >= 0
    /\ faded(frame.emitters[id])
    /\ id \notin frame.reactivated

\* C13: releaseEmitter keeps the emitter in the map and marks it inactive; an
\* emitter leaves the map only in a draw frame that computes an intensity of
\* at most 0.001 for it, and only when it is inactive.
C13_RemovedOnlyWhenFaded ==
  [][\A id \in PointerIds :
       /\ (ReleaseEmitterCall(id) /\ emitters[id] # NoEmitter)
            => (emitters'[id] # NoEmitter /\ ~emitters'[id].active)
       /\ (emitters[id] # NoEmitter /\ emitters'[id] = NoEmitter)
            => /\ Draw
               /\ ~emitters[id].active
               /\ 1000 * frame'.emitters[id] <= IntensityUnit]_vars

\* A released emitter is still in the map, and the last frame drew it at an
\* intensity between 0.001 and 0.85.
C13_Witness ==
  \E id \in PointerIds :
    /\ emitters[id] # NoEmitter
    /\ ~emitters[id].active
    /\ ~faded(frame.emitters[id])
    /\ 100 * frame.emitters[id] < 85 * IntensityUnit

\* The pulses of ps that draw() at time t must keep, as a set of indices.
Unexpired(ps, t) == {i \in DOMAIN ps : t - ps[i].createdAt <= ps[i].ttl}

\* C14: a draw frame at time now leaves exactly the pulses with
\* now - createdAt <= ttl, in their order and as they were; each is drawn at
\* 0.9 * (1 - age / ttl), which is 0 at age = ttl and not more than on the
\* frame before.
C14_PulsesExpireInOrder ==
  [][Draw =>
       LET kept == Unexpired(pulses, fieldNow)
           nth(j) == CHOOSE i \in kept : Cardinality({k \in kept : k < i}) = j - 1
       IN  /\ Len(pulses') = Cardinality(kept)
           /\ \A j \in DOMAIN pulses' :
                LET age == fieldNow - pulses[nth(j)].createdAt
                    ttl == pulses[nth(j)].ttl
                IN  /\ pulses'[j] = pulses[nth(j)]
                    /\ frame'.pulses[j] = 9 * (ttl - age)
                    /\ frame'.pulses[j] >= 0
                    /\ age = ttl => frame'.pulses[j] = 0
                    /\ nth(j) \in DOMAIN frame.pulses
                         => frame'.pulses[j] <= frame.pulses[nth(j)]]_vars

\* The last frame has dropped an expired pulse and has drawn another, at the
\* very end of its life, at intensity 0.
C14_Witness ==
  /\ frame.dropped >= 1
  /\ \E j \in DOMAIN frame.pulses : frame.pulses[j] = 0

(* ------------------------- claims on the mapper ------------------------ *)

\* A position has been mapped.
Mapped(m) == m # NoMapped

\* The widest step between two adjacent scale pitches.
MaxScaleStep ==
  LET steps == {PENTATONIC_FREQUENCIES[k + 1] - PENTATONIC_FREQUENCIES[k] : k \in 1..9}
  IN  CHOOSE s \in steps : \A u \in steps : u <= s

\* C21: the frequency never decreases from one mapped position to another one
\* further right, and rises no faster than the widest scale step per ninth of
\* the width (no jump); at a scale-step boundary x = k * width / 9 it is exactly the
\* k-th scale pitch; it is the lowest pitch at x = 0 and the highest of the ten
\* at x = width.
C21_FrequencyFollowsX ==
  [][ /\ (Mapped(mapped) /\ Mapped(mapped') /\ mapped.x <= mapped'.x)
         => mapped.frequency <= mapped'.frequency
      /\ (Mapped(mapped) /\ Mapped(mapped') /\ 0 <= mapped.x /\ mapped.x <= mapped'.x
            /\ mapped'.x <= rect.width)
         => (mapped'.frequency - mapped.frequency) * rect.width
              <= (mapped'.x - mapped.x) * 9 * MaxScaleStep + rect.width
      /\ Mapped(mapped') =>
           /\ \A k \in 0..9 :
                mapped'.x * 9 = k * rect.width
                  => mapped'.frequency = PENTATONIC_FREQUENCIES[k + 1]
           /\ mapped'.x = 0 => mapped'.frequency = 26163
           /\ mapped'.x = rect.width => mapped'.frequency = 88000
           /\ Len(PENTATONIC_FREQUENCIES) = 10 ]_vars

\* A position on an inner scale-step boundary, mapped after one further left.
C21_Witness ==
  /\ Mapped(mapped)
  /\ rect.width = MapWidth
  /\ mapped.x = 8
  /\ mapped.frequency = PENTATONIC_FREQUENCIES[5]

\* The gain the claim's formula gives, over 100 * height, with the inner
\* clamp of y / height (inner) or without it.
LineGain(y, height, inner) ==
  clamp(18 * height + 50 * (height - (IF inner THEN clamp(y, 0, height) ELSE y)),
        12 * height, 70 * height)

\* C22 as stated: the gain is clamp(0.18 + (1 - y/height) * 0.5, 0.12, 0.7) for
\* every y.
C22_GainIsTheLine ==
  Mapped(mapped) =>
    mapped.gain.num * 100 * rect.height
      = LineGain(mapped.y, rect.height, FALSE) * mapped.gain.den

\* C22 as amended: the gain is clamp(0.18 + (1 - clamp(y/height, 0, 1)) * 0.5,
\* 0.12, 0.7) for every y; it never increases from one mapped position to
\* another one further down, lies within [0.12, 0.7] and is 0.43 at
\* y = height / 2.
C22_GainFollowsY ==
  [][ /\ (Mapped(mapped) /\ Mapped(mapped') /\ mapped.y <= mapped'.y)
         => mapped.gain.num * mapped'.gain.den >= mapped'.gain.num * mapped.gain.den
      /\ Mapped(mapped') =>
           /\ mapped'.gain.num * 100 * rect.height
                = LineGain(mapped'.y, rect.height, TRUE) * mapped'.gain.den
           /\ 12 * mapped'.gain.den <= 100 * mapped'.gain.num
           /\ 100 * mapped'.gain.num <= 70 * mapped'.gain.den
           /\ 2 * mapped'.y = rect.height
                => 100 * mapped'.gain.num = 43 * mapped'.gain.den ]_vars

\* A position above the container's top edge, mapped to the gain of the edge.
C22_Witness ==
  /\ Mapped(mapped)
  /\ mapped.y < 0
  /\ 100 * mapped.gain.num = 68 * mapped.gain.den

\* C30: the cell at (row, col) has id row * 5 + col; its instrument is a
\* percussive variant iff row + col is even and the declared instrument of
\* GRID_SPEC[row][col] otherwise; a percussive variant has waveform
\* waveforms[id mod 5] and detune (id mod 5) * 2 - 4, and two cells of the same
\* id and base frequency have the same filter cutoff and the same instrument.
C30_InstrumentFollowsIndex ==
  [][ /\ Mapped(mapped') =>
           LET cell == mapped'.cell
               row == mapped'.rowIndex
               col == mapped'.columnIndex
               percussive == cell.instrument.id.percussive >= 0
           IN  /\ cell.id = row * 5 + col
               /\ percussive <=> (row + col) % 2 = 0
               /\ percussive =>
                    /\ cell.instrument.waveform
                         = <<"square", "sawtooth", "triangle", "square", "sine">>[(cell.id % 5) + 1]
                    /\ cell.instrument.detune = (cell.id % 5) * 2 - 4
               /\ ~percussive =>
                    /\ cell.instrument.id.base = GRID_SPEC_ID[row + 1][col + 1]
                    /\ cell.instrument = GRID_SPEC(row, col)
      /\ (Mapped(mapped) /\ Mapped(mapped') /\ mapped.cell.id = mapped'.cell.id
            /\ mapped.cell.frequency = mapped'.cell.frequency)
         => /\ mapped.cell.instrument.filterFrequency = mapped'.cell.instrument.filterFrequency
            /\ mapped.cell.instrument = mapped'.cell.instrument ]_vars

\* The percussive cell 24 (row 4, column 4), whose waveform is the fifth one.
C30_Witness ==
  /\ Mapped(mapped)
  /\ mapped.cell.id = 24
  /\ mapped.cell.instrument.id.percussive = 24
  /\ mapped.cell.instrument.waveform = "sine"

(* ------------------------- claims on the tap sound --------------------- *)

\* C23: a pointer-up within 100 ms of its pointer-down, at the top edge (y = 0)
\* and without a move, triggers exactly one percussive one-shot, whose gain is
\* the gain of the position (getGainForPosition(0, height), about 0.68), and
\* leaves no Voice for the pointer.
C23_TapAtFullGain ==
  [][\A id \in PointerIds :
       ( /\ gesture[id].phase = "down"
         /\ gesture'[id].phase = "ended"
         /\ gesture'[id].by = "up"
         /\ voicesRef[id] # 0
         /\ now - gesture[id].downAt < 100
         /\ gesture[id].dist = 0
         /\ gesture[id].startY = 0 )
       => /\ oneShots'[id].chime = 1
          /\ oneShots'[id].shimmer = 0
          /\ oneShots'[id].gain * getGainForPosition(0, HEIGHT).den
               = 100 * getGainForPosition(0, HEIGHT).num
          /\ voicesRef'[id] = 0]_vars

(* ------------------------- claims on the particles --------------------- *)

\* The hard cap of the particle list.
HardCap == IF particleHost = "aurora" THEN 1600 ELSE 240

RECURSIVE idsOf(_)
\* The ids of the particles of a list, in list order.
idsOf(ps) ==
  IF ps = <<>> THEN <<>>
  ELSE [k \in 1..Head(ps).n |-> Head(ps).id + k - 1] \o idsOf(Tail(ps))

\* C24: the particle list never holds more than the hard cap (1600 in
\* AuroraField, 240 in the inline App), and a spawn leaves the newest
\* particles: the list it found followed by the ones it created, less the
\* oldest of them beyond the cap.
C24_CapKeepsNewest ==
  [][ /\ particleCount(particles) <= HardCap
      /\ particleCount(particles') <= HardCap
      /\ PARTICLE_ID' > PARTICLE_ID =>
           LET created == [k \in 1..(PARTICLE_ID' - PARTICLE_ID) |-> PARTICLE_ID + k - 1]
               all == idsOf(particles) \o created
               excess == Max(0, Len(all) - HardCap)
           IN  idsOf(particles') = SubSeq(all, excess + 1, Len(all)) ]_vars

\* A full list whose oldest particles have been discarded by a spawn.
C24_Witness ==
  /\ bursts >= 1
  /\ particleCount(particles) = HardCap
  /\ Head(particles).id > 0
  /\ particles[Len(particles)].id + particles[Len(particles)].n = PARTICLE_ID

\* C25: a frame update moves every particle by its velocity times the frame
\* delta, takes the delta off its life, and removes exactly the particles whose
\* life is then <= 0.
C25_ParticlesAdvance ==
  [][ lastTime' # lastTime =>
        LET delta == frameDelta(particleHost, lastTime, lastTime')
            alive == SelectSeq(particles, LAMBDA p : p.life - delta > 0)
        IN  /\ Len(particles') = Len(alive)
            /\ \A k \in DOMAIN alive :
                 /\ particles'[k].id = alive[k].id
                 /\ particles'[k].n = alive[k].n
                 /\ particles'[k].life = alive[k].life - delta
                 /\ particles'[k].x = alive[k].x + alive[k].vx * delta
                 /\ particles'[k].y = alive[k].y + alive[k].vy * delta ]_vars

(* ------------------------- claims on the one-shots --------------------- *)

\* The nodes of every Voice.
VoiceNodes == UNION {heldVoices[v].held : v \in DOMAIN heldVoices}

\* C26: the shimmer arpeggio schedules exactly four one-shots, 0, 7, 12 and 19
\* semitones above the base frequency, starting 0, 80, 160 and 240 ms from
\* now, so that pitch and start time rise strictly; every one-shot has nodes
\* of its own, none of them a Voice's or another one-shot's; its nodes are
\* disconnected exactly once, when its oscillator has ended, and releasing a
\* Voice leaves every one-shot and its nodes as they were.
C26_OneShotsOwnTheirNodes ==
  [][ /\ (Len(shots') > Len(shots) /\ shots'[Len(shots')].kind = "shimmer") =>
           /\ Len(shots') = Len(shots) + 4
           /\ \A k \in 1..4 :
                LET note == shots'[Len(shots) + k]
                IN  /\ note.kind = "shimmer"
                    /\ note.semitones = <<0, 7, 12, 19>>[k]
                    /\ note.frequency
                         = (note.base * <<10000, 14983, 20000, 29966>>[k]) \div 10000
                    /\ note.start = currentTime + (k - 1) * 80
                    /\ k > 1 =>
                         /\ note.frequency > shots'[Len(shots) + k - 1].frequency
                         /\ note.start > shots'[Len(shots) + k - 1].start
      /\ \A k \in DOMAIN shots' :
           /\ shots'[k].held # {}
           /\ shots'[k].held \subseteq DOMAIN nodes'
           /\ shots'[k].held \cap UNION {heldVoices'[v].held : v \in DOMAIN heldVoices'} = {}
           /\ \A j \in DOMAIN shots' : j # k => shots'[j].held \cap shots'[k].held = {}
           /\ \A n \in shots'[k].held :
                /\ nodes'[n].of = "shot"
                /\ nodes'[n].disconnects = (IF shots'[k].ended THEN 1 ELSE 0)
                /\ nodes'[n].connected = ~shots'[k].ended
           /\ (k \in DOMAIN shots /\ shots'[k].ended /\ ~shots[k].ended)
                => shots[k].stop <= currentTime
      /\ heldVoices' # heldVoices =>
           /\ shots' = shots
           /\ \A k \in DOMAIN shots : \A n \in shots[k].held : nodes'[n] = nodes[n] ]_vars

\* An arpeggio whose four notes have ended, beside a Voice that is still held.
C26_Witness ==
  /\ Len(shots) = 4
  /\ \A k \in DOMAIN shots : shots[k].kind = "shimmer" /\ shots[k].ended
  /\ Len(heldVoices) = 1
  /\ ~heldVoices[1].released
  /\ \A n \in VoiceNodes : nodes[n].connected

\* C28 (as the specification states it): a tile is cleared by a hold timer exactly
\* when a press on it has lasted two seconds with no pointer-up, pointer-leave or
\* pointer-cancel on that tile in between: whenever a hold timer has just cleared a
\* tile, some pointer holds a press on that tile that began two seconds before or
\* earlier, and a press that is older than two seconds has had its tile cleared.
C28_ClearedExactlyByTwoSecondPress ==
  /\ lastEvent.kind = "timer" =>
       \E p \in PressPointers :
         /\ pressing[p] # NoPress
         /\ pressing[p].tile = lastEvent.tile
         /\ lastEvent.at - pressing[p].downAt >= HOLD_MS
  /\ \A p \in PressPointers :
       (pressing[p] # NoPress /\ pressNow - pressing[p].downAt > HOLD_MS) =>
         grid[pressing[p].tile] = "null"

\* C27 (as the specification states it): a pointer-up that ends a press during which
\* no hold timer has fired on the tile sets the tile to the next instrument of the
\* cycle; a pointer-up that ends a press during which a hold timer has fired on the
\* tile, a pointer-leave and a pointer-cancel leave the tile as it was.
C27_TapAdvancesOneStep ==
  /\ (lastEvent.kind = "up" /\ ~lastEvent.fired) =>
       grid[lastEvent.tile] = getNextInstrumentId(lastEvent.before)
  /\ (lastEvent.kind = "up" /\ lastEvent.fired) =>
       grid[lastEvent.tile] = lastEvent.before
  /\ lastEvent.kind \in {"leave", "cancel"} => grid[lastEvent.tile] = lastEvent.before

\* C29: while the sequencer runs, rows are triggered in cyclic top-to-bottom order.
\* A start() that gets its audio context sets row 0 and progress 0 and triggers row 0
\* once; an animation frame triggers, for each step completed since the last frame,
\* the next row (row + 1) mod 5, once each and in order, also when the frame spans
\* several steps, and keeps the rest of the time as progress; and always
\* 0 <= row < 5 and 0 <= progress < 1.
C29_RowsInCyclicOrder ==
  /\ [](rowRef \in 0..(SEQUENCER_ROWS - 1) /\ progressRef \in 0..(STEP_DURATION_MS - 1))
  /\ [][/\ (startPending /\ animationFrameRef') =>
             (rowRef' = 0 /\ progressRef' = 0 /\ triggeredRows' = <<0>>)
        /\ playTime' # playTime =>
             LET delta == IF lastTickRef = -1 THEN 0 ELSE playTime' - lastTickRef
                 n == (progressRef + delta) \div STEP_DURATION_MS
             IN /\ Len(triggeredRows') = n
                /\ \A i \in 1..n : triggeredRows'[i] = (rowRef + i) % SEQUENCER_ROWS
                /\ rowRef' = (rowRef + n) % SEQUENCER_ROWS
                /\ progressRef' = (progressRef + delta) % STEP_DURATION_MS]_vars

\* One frame spanned several steps and the rows it triggered wrapped from row 4 to row 0.
C29_Witness ==
  /\ isPlaying
  /\ Len(triggeredRows) >= 2
  /\ triggeredRows[1] = SEQUENCER_ROWS - 1
  /\ triggeredRows[2] = 0
  /\ rowRef = triggeredRows[Len(triggeredRows)]

\* C31: once the release timer of a Voice has fired, none of the nodes created for
\* the Voice (oscillator, vibrato oscillator, vibrato gain, filter, panner, gain) is
\* still connected.
C31_TeardownDisconnectsEveryNode ==
  \A v \in DOMAIN heldVoices :
    heldVoices[v].released => \A n \in heldVoices[v].held : ~nodes[n].connected

(* ------------------------ claims on the Tone.js App -------------------- *)

\* C32: however many gestures call initializeAudio before the first
\* initialization completes, one initialization routine is in flight and the drum
\* set is created at most once; when no routine is in flight and the audio is not
\* initialized (none has started, or the last one failed), the in-flight promise
\* is cleared, so that the next call starts a new attempt.
C32_OneInitializationInFlight ==
  /\ Len(initRuns) <= 1
  /\ drumSets <= 1
  /\ (initRuns = <<>> /\ ~audioInitialized) => audioInitPromise = "null"

\* C33: once the touch-end of a touch id has been handled (the touch is gone from
\* touches and no handleTouchEnd of it waits for the audio), the synth map has no
\* entry for the id and every synth created for the id has been disposed.
C33_EndedTouchLeavesNoSynth ==
  \A id \in ToneIds :
    (toneTouches[id] = NoTouch /\ \A k \in DOMAIN endWaits : endWaits[k].id # id) =>
      /\ synthsRef[id] = 0
      /\ \A k \in DOMAIN toneSynths : toneSynths[k].touch = id => toneSynths[k].disposed

\* C36: with four drums loaded, a tap at y with 0 <= y <= containerHeight has a
\* drum index in 0..3 and plays that drum.
C36_TapPlaysOneOfFourDrums ==
  (lastDrum # NoDrum /\ lastDrum.drums = DRUM_COUNT /\ lastDrum.y \in 0..ToneHeight) =>
    (lastDrum.index \in 0..(DRUM_COUNT - 1) /\ lastDrum.played)

\* C34: when the await of a start() is over whose playback was toggled off in the
\* meantime, no row is triggered, row, progress and last tick stay as they are and
\* no animation frame is requested; and while isPlaying is false no animation
\* frame is requested, so that no frame callback triggers a row.
C34_CancelledStartDoesNothing ==
  /\ [](~isPlaying => ~animationFrameRef)
  /\ [][/\ cancelledStarts' < cancelledStarts =>
             /\ triggeredRows' = <<>>
             /\ rowRef' = rowRef /\ progressRef' = progressRef /\ lastTickRef' = lastTickRef
             /\ animationFrameRef' = animationFrameRef
        /\ (~isPlaying /\ playTime' # playTime) => triggeredRows' = <<>>]_vars

\* Playback was toggled off while start() waited, and the await of that start() is
\* over: the row of the last playback is still there and no frame is requested.
C34_Witness ==
  /\ lastStart = "cancelled"
  /\ ~isPlaying
  /\ cancelledStarts = 0
  /\ rowRef > 0
  /\ ~animationFrameRef
  /\ triggeredRows = <<>>

(* ------------------ claims on ensureAudioContextRunning ------------------ *)
\* C35: the promise of ensureAudioContextRunning settles exactly once: it is
\* resolved with the context running, and rejected otherwise once timeoutMs has
\* passed since the call, so that it is never pending later than that; when it has
\* settled the listener is removed and the timer cleared, and nothing that
\* happens after the settlement changes it.
C35_SettlesOnceWithinTimeout ==
  /\ [](ensureSettlements <= 1)
  /\ [](ensurePromise # "pending" => (~ensureListener /\ ensureTimerId = NoEnsureTimer))
  /\ []((ensurePc # "idle" /\ ensurePromise = "pending")
          => ensureNow - ensureCalledAt <= ensureTimeoutMs)
  /\ [][/\ ensurePromise # "pending" =>
             (ensurePromise' = ensurePromise /\ ensureSettlements' = ensureSettlements)
        /\ (ensurePromise = "pending" /\ ensurePromise' = "resolved") =>
             contextState' = "running"
        /\ (ensurePromise = "pending" /\ ensurePromise' = "rejected") =>
             (contextState' # "running" /\ ensureNow - ensureCalledAt = ensureTimeoutMs)]_vars

(* --------------------- claims on the pointer pipeline --------------------- *)
\* C37: once the instrument of a gesture is locked, no step fires the shimmer
\* arpeggio for its pointer and the lock stays until the gesture ends or the next
\* pointer-down is handled, also when a later move is diagonal; so a gesture that
\* fired the shimmer was never locked.
C37_LockedGestureNeverShimmers ==
  /\ [](\A id \in PointerIds :
          (variant = "lead" /\ pointerMetaRef[id] # NoMeta) =>
            ~(pointerMetaRef[id].triggeredShimmer /\ pointerMetaRef[id].instrumentLocked))
  /\ [][\A id \in PointerIds :
          (variant = "lead" /\ pointerMetaRef[id] # NoMeta
             /\ pointerMetaRef[id].instrumentLocked) =>
            /\ oneShots'[id].shimmer = oneShots[id].shimmer
            /\ \/ pointerMetaRef'[id] = NoMeta
               \/ pointerMetaRef'[id].instrumentLocked
               \/ ResumeResolve
               \/ \E p \in Positions : handlePointerDownLP(id, p[1], p[2])]_vars

\* A locked gesture has moved to where the diagonal condition holds, and the
\* shimmer has not fired.
C37_Witness ==
  \E id \in PointerIds :
    /\ variant = "lead"
    /\ gesture[id].phase = "down"
    /\ pointerMetaRef[id] # NoMeta
    /\ pointerMetaRef[id].instrumentLocked
    /\ isDiagonal(pointerMetaRef[id].lastX - pointerMetaRef[id].startX,
                  pointerMetaRef[id].lastY - pointerMetaRef[id].startY)
    /\ ~pointerMetaRef[id].triggeredShimmer
    /\ oneShots[id].shimmer = 0
    /\ voicesRef[id] # 0

\* C38: in every reachable state a pointer with a Voice in the voice map is in
\* the active-pointer set and has its gesture state: keys(voicesRef) is a subset
\* of activePointersRef and of keys(pointerMetaRef).
C38_VoiceHasActivePointerAndMeta ==
  \A id \in PointerIds :
    voicesRef[id] # 0 => (id \in activePointersRef /\ pointerMetaRef[id] # NoMeta)

\* A pointer-down that waited for the resume while its pointer was released has
\* been resumed, and the pointer, down again, has its Voice, is active and has
\* its gesture state.
C38_Witness ==
  \E id \in PointerIds :
    /\ resuming = "no"
    /\ pendingDowns = <<>>
    /\ gesture[id].phase = "down"
    /\ voicesRef[id] # 0
    /\ audioGraph[voicesRef[id]].status = "sounding"
    /\ \E v \in DOMAIN audioGraph : audioGraph[v].stale
    /\ id \in activePointersRef
    /\ pointerMetaRef[id] # NoMeta

(* ----------------------- claims on the render fields ---------------------- *)
\* C39: however often start() is called, at most one animation frame callback
\* of the loop is scheduled; once destroy() has run no update or draw is executed,
\* also when start() is called again; destroy() leaves the emitters, the pulses
\* and the particles of its field empty; and a destroyed AuroraField stays
\* without particles, spawnBurst adding none.
C39_OneLoopAndNoneAfterDestroy ==
  /\ [](Cardinality(frameRequests) <= 1)
  /\ []((destroyed /\ loopField = "AuroraField") => particles = <<>>)
  /\ [][/\ destroyed => loopDraws' = loopDraws
        /\ LoopDestroy =>
             /\ destroyed'
             /\ frameRequests' = {}
             /\ loopField = "RainbowField" =>
                  (pulses' = <<>> /\ \A id \in PointerIds : emitters'[id] = NoEmitter)
             /\ loopField = "AuroraField" => particles' = <<>>]_vars

\* A field that drew, was destroyed with emitters, pulses or particles in it and
\* started again: the callback of the second start() has run, a burst was asked
\* for since (AuroraField), and nothing was drawn or added.
C39_Witness ==
  /\ destroyed
  /\ loopDraws >= 1
  /\ rafId # 0
  /\ frameRequests = {}
  /\ loopField = "AuroraField" => (bursts = MaxBursts /\ PARTICLE_ID > 0 /\ particles = <<>>)
  /\ loopField = "RainbowField" => (pulses = <<>> /\ \A id \in PointerIds : emitters[id] = NoEmitter)

====
